---- MODULE Spec2Model ----
(***************************************************************************)
(* Job-portal REST backend: the route handlers of jobs, applications,      *)
(* saved jobs, profile and admin over one shared relational store.  Every  *)
(* handler is a sequence of store operations (one per await); concurrent   *)
(* requests interleave between store operations.                           *)
(***************************************************************************)
EXTENDS Integers, Sequences, FiniteSets, TLC

\* ------------------------------------------------------------------ bounds
\* Requests that may be in flight at once.
MaxInflight == 2
\* Rows ever created per table (ids are fresh and never reused).
MaxJobs == 3
MaxApps == 3
MaxSaved == 3
MaxProfiles == 3
MaxExps == 1
MaxEdus == 1
\* Files ever written by uploads.
MaxFiles == 3

\* ------------------------------------------------------------- JS values
\* A request value: undefined, null, a string (a sequence of characters) or
\* some value that is not a string.
Undefined == [t |-> "undefined", s |-> <<>>]
Null == [t |-> "null", s |-> <<>>]
NotAString == [t |-> "number", s |-> <<>>]
True == [t |-> "true", s |-> <<>>]
False == [t |-> "false", s |-> <<>>]
Arr(items) == [t |-> "array", s |-> items]
Str(chars) == [t |-> "string", s |-> chars]

\* a ?? b
Coalesce(a, b) == IF a.t \in {"undefined", "null"} THEN b ELSE a
\* x != null  (loose inequality: neither null nor undefined)
NotNullish(x) == x.t \notin {"undefined", "null"}
\* truthiness of a request value
Truthy(x) == \/ x.t \in {"number", "true", "array"}
             \/ x.t = "string" /\ x.s # <<>>

\* String.prototype.toLowerCase
UpperCase == <<"A", "B", "C", "D", "E", "F", "G", "H", "I", "J", "K", "L", "M",
               "N", "O", "P", "Q", "R", "S", "T", "U", "V", "W", "X", "Y", "Z">>
LowerCase == <<"a", "b", "c", "d", "e", "f", "g", "h", "i", "j", "k", "l", "m",
               "n", "o", "p", "q", "r", "s", "t", "u", "v", "w", "x", "y", "z">>
LowerChar(c) ==
  IF \E i \in 1..Len(UpperCase) : UpperCase[i] = c
  THEN LowerCase[CHOOSE i \in 1..Len(UpperCase) : UpperCase[i] = c]
  ELSE c
toLowerCase(s) == [i \in 1..Len(s) |-> LowerChar(s[i])]

\* String.prototype.trim
IsSpace(c) == c \in {" ", "\t"}
RECURSIVE trimStart(_)
trimStart(s) == IF s # <<>> /\ IsSpace(Head(s)) THEN trimStart(Tail(s)) ELSE s
RECURSIVE trimEnd(_)
trimEnd(s) ==
  IF s # <<>> /\ IsSpace(s[Len(s)]) THEN trimEnd(SubSeq(s, 1, Len(s) - 1)) ELSE s
\* (variant: leading whitespace only)
trimStartOnly(s) == trimStart(s)

trim(s) == trimEnd(trimStart(s))

Frontend == <<"f", "r", "o", "n", "t", "e", "n", "d">>
Backend == <<"b", "a", "c", "k", "e", "n", "d">>
Fullstack == <<"f", "u", "l", "l", "s", "t", "a", "c", "k">>
JOB_CATEGORIES == <<Frontend, Backend, Fullstack>>
Includes(list, v) == \E i \in 1..Len(list) : list[i] = v

\* normalizeCategory(input): the normalized category, or null
normalizeCategory(input) ==
  IF input.t # "string" THEN Null
  ELSE LET value == toLowerCase(trim(input.s))
       IN IF value = <<>> THEN Null
          ELSE IF ~Includes(JOB_CATEGORIES, value) THEN Null
          ELSE Str(value)

\* A request body or query: a JS object, i.e. a record holding only the keys
\* that are present.
Has(obj, k) == k \in DOMAIN obj
Get(obj, k) == IF Has(obj, k) THEN obj[k] ELSE Undefined
EmptyObj == [k \in {} |-> Undefined]
\* { ...obj } with key k deleted
DeleteKey(obj, k) == [x \in (DOMAIN obj) \ {k} |-> obj[x]]
\* obj with obj[k] = v
SetKey(obj, k, v) == [x \in (DOMAIN obj) \cup {k} |-> IF x = k THEN v ELSE obj[x]]

\* ------------------------------------------------------------ principals
\* The token of a request carries the user id and the role.
Seekers == {"s1", "s2"}
Recruiters == {"r1", "r2"}
Admins == {"a1"}
Users == Seekers \cup Recruiters \cup Admins
RoleOf(u) == IF u \in Seekers THEN "JOB_SEEKER"
             ELSE IF u \in Recruiters THEN "RECRUITER" ELSE "ADMIN"
\* requireRole(...roles): the request passes only with one of the roles
requireRole(roles, role) == role \in roles

Procs == 1..MaxInflight
JobIds == 1..MaxJobs
AppIds == 1..MaxApps

\* ------------------------------------------------------------------ state
VARIABLES
  users,         \* User rows (their ids)
  userRole,      \* the role column of the User rows
  jobs,          \* Job rows [id, recruiterId, category, title, createdAt]
  applications,  \* Application rows [id, userId, jobId, status]
  savedJobs,     \* SavedJob rows [id, userId, jobId]
  profiles,      \* Profile rows [id, userId, name, about, skills, avatar, resume]
  experiences,   \* Experience rows [id, profileId, current, endDate]
  education,     \* Education rows [id, profileId, degree]
  disk,          \* the files under uploads/ [dir, user, n, ext]
  nextId,        \* next fresh id of each table, next suffix of a file name
  inflight,      \* the request each process is handling, with its position
  last,          \* the request just answered, with its response (until the
                 \* next step of any request)
  hist           \* observer of the responses given to one (user, job) pair

store == <<users, userRole, jobs, applications, savedJobs, profiles, experiences,
          education>>
vars == <<users, userRole, jobs, applications, savedJobs, profiles, experiences,
          education, disk, nextId, inflight, last, hist>>

\* ------------------------------------------------------------------ store
\* findUnique: the row, as a set of at most one element
JobById(id) == {j \in jobs : j.id = id}
AppById(id) == {a \in applications : a.id = id}
\* findUnique({ where: { userId_jobId } }) on the compound unique key
AppByUserJob(u, j) == {a \in applications : a.userId = u /\ a.jobId = j}
SavedByUserJob(u, j) == {s \in savedJobs : s.userId = u /\ s.jobId = j}
\* findUnique({ where: { userId } }) on Profile's unique userId
ProfileByUser(u) == {q \in profiles : q.userId = u}

\* Foreign keys of the schema: a row may be inserted only if the rows it
\* references exist, and a referenced row may not be deleted.
ApplicationFkOk(u, j) == u \in users /\ JobById(j) # {}
SavedJobFkOk(u, j) == u \in users /\ JobById(j) # {}
JobFkOk(recruiter) == recruiter \in users
ProfileFkOk(u) == u \in users
JobReferenced(j) ==
  \/ \E a \in applications : a.jobId = j
  \/ \E s \in savedJobs : s.jobId = j
UserReferenced(u) ==
  \/ \E a \in applications : a.userId = u
  \/ \E s \in savedJobs : s.userId = u
  \/ \E j \in jobs : j.recruiterId = u

\* The unique constraints of the schema, as create sees them
ApplicationUniqueOk(u, j) == AppByUserJob(u, j) = {}
SavedJobUniqueOk(u, j) == SavedByUserJob(u, j) = {}
ProfileUniqueOk(u) == ProfileByUser(u) = {}

\* --------------------------------------------------------------- requests
\* A request in flight: the route (op), the caller of the token (user, role),
\* the path parameter (id), the body or query, the handler's position (pc) and
\* locals (owner: the owner found by the handler's lookup; rest: the jobs the
\* delete-user loop still has to visit, or the old avatar path; data: the data prepared for the store),
\* the response (status, outIds, outFlag), and whether the handler has changed
\* the store (wrote).
Idle ==
  [op |-> "none", user |-> "", role |-> "", id |-> 0, body |-> EmptyObj,
   pc |-> "idle", owner |-> "", rest |-> {}, data |-> EmptyObj, status |-> 0,
   outIds |-> <<>>, outFlag |-> FALSE, wrote |-> FALSE]
NewReq(op, u, id, body) ==
  [Idle EXCEPT !.op = op, !.user = u, !.role = RoleOf(u), !.id = id,
               !.body = body, !.pc = "start"]
\* res.status(st).json(...)
Respond(r, st) == [r EXCEPT !.pc = "done", !.status = st]
\* A request is taken by the first process that handles none.
Free(p) == inflight[p].pc = "idle" /\ \A q \in Procs : q < p => inflight[q].pc # "idle"
At(p, op, pc) == inflight[p].op = op /\ inflight[p].pc = pc
Running(op) == {q \in Procs : inflight[q].op = op}
\* Process p goes on with request r, or has answered it.
Put(p, r) ==
  IF r.pc = "done"
  THEN inflight' = [inflight EXCEPT ![p] = Idle] /\ last' = r
  ELSE inflight' = [inflight EXCEPT ![p] = r] /\ last' = Idle
Answered(op, st) == last.op = op /\ last.status = st

\* The observer follows one pair, (Watched.user, Watched.job): what the
\* answered apply/withdraw and save/remove requests of that pair did so far.
Watched == [user |-> "s1", job |-> 1]
HistApp(u, j, event) ==
  IF u # Watched.user \/ j # Watched.job THEN hist
  ELSE [hist EXCEPT !.app =
          IF event = "apply"
          THEN (IF @ \in {"withdrawn", "reapplied"} THEN "reapplied" ELSE "applied")
          ELSE "withdrawn"]
HistSaved(u, j, event) ==
  IF u # Watched.user \/ j # Watched.job THEN hist
  ELSE [hist EXCEPT !.saved = IF event = "save" THEN "saved" ELSE "removed"]

\* (variant: no unique constraint on (userId, jobId))
ApplicationCreateOkFkOnly(u, j) == ApplicationFkOk(u, j)
\* ------------------------------------------------- routes/applications
\* prisma.application.create: the table after the insert, or the same table
\* when the insert throws (unique (userId, jobId), foreign keys).
ApplicationCreateOk(u, j) == ApplicationUniqueOk(u, j) /\ ApplicationFkOk(u, j)
ApplicationCreate(u, j) ==
  IF ApplicationCreateOk(u, j)
  THEN applications \cup
         {[id |-> nextId.app, userId |-> u, jobId |-> j, status |-> "PENDING"]}
  ELSE applications

\* POST /applications/job/:jobId, up to the job lookup
ApplyStart(p, u, j) ==
  /\ Free(p)
  /\ nextId.app + Cardinality(Running("apply")) <= MaxApps
  /\ LET r == NewReq("apply", u, j, EmptyObj)
     IN Put(p, IF ~requireRole({"JOB_SEEKER"}, r.role) THEN Respond(r, 403)
               ELSE IF JobById(j) = {} THEN Respond(r, 404)
               ELSE [r EXCEPT !.pc = "findExisting"])
  /\ UNCHANGED <<disk, store, nextId, hist>>

\* (variant: the existence check keyed on the user alone)
ApplyFindExistingAnyJob(p) ==
  /\ At(p, "apply", "findExisting")
  /\ LET r == inflight[p]
     IN Put(p, IF \E a \in applications : a.userId = r.user THEN Respond(r, 400)
               ELSE [r EXCEPT !.pc = "create"])
  /\ UNCHANGED <<disk, store, nextId, hist>>
\* the existence check on (userId, jobId)
ApplyFindExisting(p) ==
  /\ At(p, "apply", "findExisting")
  /\ LET r == inflight[p]
     IN Put(p, IF AppByUserJob(r.user, r.id) # {} THEN Respond(r, 400)
               ELSE [r EXCEPT !.pc = "create"])
  /\ UNCHANGED <<disk, store, nextId, hist>>

\* prisma.application.create and the 201, or the catch block's 500
ApplyCreate(p) ==
  /\ At(p, "apply", "create")
  /\ LET r == inflight[p]
         after == ApplicationCreate(r.user, r.id)
     IN /\ applications' = after
        /\ IF after # applications
           THEN /\ Put(p, [Respond(r, 201) EXCEPT !.outIds = <<nextId.app>>,
                                                  !.wrote = TRUE])
                /\ nextId' = [nextId EXCEPT !.app = @ + 1]
                /\ hist' = HistApp(r.user, r.id, "apply")
           ELSE /\ Put(p, Respond(r, 500))
                /\ UNCHANGED <<nextId, hist>>
  /\ UNCHANGED <<disk, users, userRole, jobs, savedJobs, profiles, experiences, education>>

\* (variant: only the job seeker's check)
GetApplicationVisibleSeekerOnly(role, u, app, job) ==
  ~(role = "JOB_SEEKER" /\ app.userId # u)
\* GET /applications/:id
GetApplicationVisible(role, u, app, job) ==
  /\ ~(role = "JOB_SEEKER" /\ app.userId # u)
  /\ ~(role = "RECRUITER" /\ job.recruiterId # u)
GetApplication(p, u, a) ==
  /\ Free(p)
  /\ LET r == NewReq("getApplication", u, a, EmptyObj)
     IN Put(p, IF AppById(a) = {} THEN Respond(r, 404)
               ELSE LET app == CHOOSE x \in AppById(a) : TRUE
                    IN IF JobById(app.jobId) = {} THEN Respond(r, 500)
                       ELSE LET job == CHOOSE x \in JobById(app.jobId) : TRUE
                            IN IF GetApplicationVisible(r.role, u, app, job)
                               THEN [Respond(r, 200) EXCEPT !.outIds = <<a>>]
                               ELSE Respond(r, 403))
  /\ UNCHANGED <<disk, store, nextId, hist>>

\* DELETE /applications/:id, up to the ownership check
WithdrawStart(p, u, a) ==
  /\ Free(p)
  /\ LET r == NewReq("withdraw", u, a, EmptyObj)
     IN Put(p, IF ~requireRole({"JOB_SEEKER"}, r.role) THEN Respond(r, 403)
               ELSE IF AppById(a) = {} THEN Respond(r, 404)
               ELSE LET app == CHOOSE x \in AppById(a) : TRUE
                    IN IF app.userId # u THEN Respond(r, 403)
                       ELSE [r EXCEPT !.pc = "delete"])
  /\ UNCHANGED <<disk, store, nextId, hist>>

\* prisma.application.delete: throws when the row is gone
WithdrawDelete(p) ==
  /\ At(p, "withdraw", "delete")
  /\ LET r == inflight[p]
     IN IF AppById(r.id) = {}
        THEN /\ Put(p, Respond(r, 500))
             /\ UNCHANGED <<applications, hist>>
        ELSE LET app == CHOOSE x \in AppById(r.id) : TRUE
             IN /\ applications' = applications \ {app}
                /\ Put(p, [Respond(r, 200) EXCEPT !.wrote = TRUE])
                /\ hist' = HistApp(app.userId, app.jobId, "withdraw")
  /\ UNCHANGED <<disk, users, userRole, jobs, savedJobs, profiles, experiences, education, nextId>>

\* PATCH /applications/:id/status
validStatuses == <<Str(<<"PENDING">>), Str(<<"REVIEWED">>), Str(<<"ACCEPTED">>),
                   Str(<<"REJECTED">>)>>
\* (variant: no ownership check)
UpdateStatusAllowedAnyRecruiter(u, job) == TRUE
\* application.job.recruiterId !== req.user.userId
UpdateStatusAllowed(u, job) == job.recruiterId = u
\* up to the ownership check
UpdateStatusStart(p, u, a, body) ==
  /\ Free(p)
  /\ LET r == NewReq("updateStatus", u, a, body)
     IN Put(p, IF ~requireRole({"RECRUITER"}, r.role) THEN Respond(r, 403)
               ELSE IF ~Includes(validStatuses, Get(body, "status")) THEN Respond(r, 400)
               ELSE IF AppById(a) = {} THEN Respond(r, 404)
               ELSE LET app == CHOOSE x \in AppById(a) : TRUE
                    IN IF JobById(app.jobId) = {} THEN Respond(r, 500)
                       ELSE LET job == CHOOSE x \in JobById(app.jobId) : TRUE
                            IN IF ~UpdateStatusAllowed(u, job) THEN Respond(r, 403)
                               ELSE [r EXCEPT !.pc = "update"])
  /\ UNCHANGED <<disk, store, nextId, hist>>

\* prisma.application.update({ data: { status } }): throws when the row is gone
UpdateStatusWrite(p) ==
  /\ At(p, "updateStatus", "update")
  /\ LET r == inflight[p]
     IN IF AppById(r.id) = {}
        THEN Put(p, Respond(r, 500)) /\ UNCHANGED applications
        ELSE LET app == CHOOSE x \in AppById(r.id) : TRUE
             IN /\ applications' = (applications \ {app})
                                   \cup {[app EXCEPT !.status = r.body.status.s[1]]}
                /\ Put(p, [Respond(r, 200) EXCEPT !.outIds = <<r.id>>, !.wrote = TRUE])
  /\ UNCHANGED <<disk, users, userRole, jobs, savedJobs, profiles, experiences, education, nextId, hist>>

\* ---------------------------------------------------------- routes/jobs
\* orderBy: { createdAt: 'desc' } over a set of rows, as the list of their ids
RECURSIVE NewestFirst(_)
NewestFirst(rows) ==
  IF rows = {} THEN <<>>
  ELSE LET top == CHOOSE x \in rows : \A y \in rows : y.createdAt <= x.createdAt
       IN <<top.id>> \o NewestFirst(rows \ {top})

\* GET /jobs?role=..&category=..: the status and the listed job ids
ListJobsStatus(query) ==
  LET roleQuery == Coalesce(Get(query, "role"), Get(query, "category"))
      category == normalizeCategory(roleQuery)
  IN IF NotNullish(roleQuery) /\ ~NotNullish(category) THEN 400 ELSE 200
ListJobsResult(query) ==
  LET roleQuery == Coalesce(Get(query, "role"), Get(query, "category"))
      category == normalizeCategory(roleQuery)
  IN IF Truthy(category)
     THEN NewestFirst({j \in jobs : j.category = category.s})
     ELSE NewestFirst(jobs)
ListJobs(p, query) ==
  /\ Free(p)
  /\ LET r == NewReq("listJobs", "", 0, query)
     IN Put(p, IF ListJobsStatus(query) = 400 THEN Respond([r EXCEPT !.role = ""], 400)
               ELSE [Respond([r EXCEPT !.role = ""], 200)
                       EXCEPT !.outIds = ListJobsResult(query)])
  /\ UNCHANGED <<disk, store, nextId, hist>>

\* GET /jobs/:id (public): 404 when the job is not there
GetJob(p, j) ==
  /\ Free(p)
  /\ LET r == [NewReq("getJob", "", j, EmptyObj) EXCEPT !.role = ""]
     IN Put(p, IF JobById(j) = {} THEN Respond(r, 404)
               ELSE [Respond(r, 200) EXCEPT !.outIds = <<j>>])
  /\ UNCHANGED <<disk, store, nextId, hist>>

\* GET /jobs/:id/applicants: up to the ownership check
GetApplicantsStart(p, u, j) ==
  /\ Free(p)
  /\ LET r == NewReq("getApplicants", u, j, EmptyObj)
     IN Put(p, IF ~requireRole({"RECRUITER"}, r.role) THEN Respond(r, 403)
               ELSE IF JobById(j) = {} THEN Respond(r, 404)
               ELSE IF (CHOOSE x \in JobById(j) : TRUE).recruiterId # u
               THEN Respond(r, 403)
               ELSE [r EXCEPT !.pc = "list"])
  /\ UNCHANGED <<disk, store, nextId, hist>>
\* prisma.application.findMany({ where: { jobId } })
GetApplicantsList(p) ==
  /\ At(p, "getApplicants", "list")
  /\ LET r == inflight[p]
     IN Put(p, [Respond(r, 200) EXCEPT !.outFlag = \E a \in applications : a.jobId = r.id])
  /\ UNCHANGED <<disk, store, nextId, hist>>

\* POST /jobs: the category the handler stores
CreateJobCategory(body) ==
  Coalesce(normalizeCategory(Coalesce(Get(body, "role"), Get(body, "category"))),
           Str(Fullstack))
CreateJobValid(body) ==
  /\ Truthy(Get(body, "title"))
  /\ Truthy(Get(body, "company"))
  /\ Truthy(Get(body, "location"))
  /\ Truthy(Get(body, "salary"))
  /\ Truthy(Get(body, "description"))
CreateJob(p, u, body) ==
  /\ Free(p)
  /\ nextId.job <= MaxJobs
  /\ LET r == NewReq("createJob", u, 0, body)
     IN IF ~requireRole({"RECRUITER"}, r.role)
        THEN Put(p, Respond(r, 403)) /\ UNCHANGED <<jobs, nextId>>
        ELSE IF ~CreateJobValid(body)
        THEN Put(p, Respond(r, 400)) /\ UNCHANGED <<jobs, nextId>>
        ELSE IF ~JobFkOk(u)
        THEN Put(p, Respond(r, 500)) /\ UNCHANGED <<jobs, nextId>>
        ELSE /\ jobs' = jobs \cup
                  {[id |-> nextId.job, recruiterId |-> u,
                    category |-> CreateJobCategory(body).s,
                    title |-> Get(body, "title").s, createdAt |-> nextId.job]}
             /\ nextId' = [nextId EXCEPT !.job = @ + 1]
             /\ Put(p, [Respond(r, 201) EXCEPT !.outIds = <<nextId.job>>,
                                               !.wrote = TRUE])
  /\ UNCHANGED <<disk, users, userRole, applications, savedJobs, profiles, experiences, education, hist>>

\* PUT /jobs/:id: updateData, the data handed to prisma.job.update
UpdateJobCategory(body) ==
  normalizeCategory(Coalesce(Get(body, "role"), Get(body, "category")))
UpdateJobInvalid(body) ==
  /\ NotNullish(Get(body, "role")) \/ NotNullish(Get(body, "category"))
  /\ ~Truthy(UpdateJobCategory(body))
\* (variant: the body handed over as it came)
UpdateJobDataRaw(body) == body
UpdateJobData(body) ==
  LET stripped == DeleteKey(DeleteKey(body, "role"), "category")
  IN IF Truthy(UpdateJobCategory(body))
     THEN SetKey(stripped, "category", UpdateJobCategory(body))
     ELSE stripped
\* The columns of Job that an update may set
JobColumns == {"title", "company", "location", "category", "type", "salary",
               "description", "requirements", "recruiterId"}
\* prisma.job.update accepts the data: known columns, string values, and an
\* existing user as recruiter
JobUpdateOk(data) ==
  /\ DOMAIN data \subseteq JobColumns
  /\ \A k \in DOMAIN data : data[k].t \in {"string", "undefined"}
  /\ Get(data, "recruiterId").t = "string" => JobFkOk(Get(data, "recruiterId").s[1])
JobUpdate(job, data) ==
  [job EXCEPT
     !.title = IF Get(data, "title").t = "string" THEN data.title.s ELSE @,
     !.category = IF Get(data, "category").t = "string" THEN data.category.s ELSE @,
     !.recruiterId = IF Get(data, "recruiterId").t = "string"
                     THEN data.recruiterId.s[1] ELSE @]

\* up to the validation of role/category
UpdateJobStart(p, u, j, body) ==
  /\ Free(p)
  /\ LET r == NewReq("updateJob", u, j, body)
     IN Put(p, IF ~requireRole({"RECRUITER"}, r.role) THEN Respond(r, 403)
               ELSE IF JobById(j) = {} THEN Respond(r, 404)
               ELSE LET job == CHOOSE x \in JobById(j) : TRUE
                    IN IF job.recruiterId # u
                       THEN Respond([r EXCEPT !.owner = job.recruiterId], 403)
                       ELSE IF UpdateJobInvalid(body)
                       THEN Respond([r EXCEPT !.owner = job.recruiterId], 400)
                       ELSE [r EXCEPT !.owner = job.recruiterId,
                                      !.data = UpdateJobData(body),
                                      !.pc = "update"])
  /\ UNCHANGED <<disk, store, nextId, hist>>

\* prisma.job.update and the 200, or the catch block's 500
UpdateJobWrite(p) ==
  /\ At(p, "updateJob", "update")
  /\ LET r == inflight[p]
         data == r.data
     IN IF JobById(r.id) = {} \/ ~JobUpdateOk(data)
        THEN Put(p, Respond(r, 500)) /\ UNCHANGED jobs
        ELSE LET job == CHOOSE x \in JobById(r.id) : TRUE
             IN /\ jobs' = (jobs \ {job}) \cup {JobUpdate(job, data)}
                /\ Put(p, [Respond(r, 200) EXCEPT !.wrote = TRUE])
  /\ UNCHANGED <<disk, users, userRole, applications, savedJobs, profiles, experiences, education,
                 nextId, hist>>

\* (variant: no ownership check)
DeleteJobAllowedAnyone(role, u, job) == TRUE
\* DELETE /jobs/:id: who may delete the job found
DeleteJobAllowed(role, u, job) == ~(role = "RECRUITER" /\ job.recruiterId # u)
DeleteJobStart(p, u, j) ==
  /\ Free(p)
  /\ LET r == NewReq("deleteJob", u, j, EmptyObj)
     IN Put(p, IF ~requireRole({"RECRUITER", "ADMIN"}, r.role) THEN Respond(r, 403)
               ELSE IF JobById(j) = {} THEN Respond(r, 404)
               ELSE LET job == CHOOSE x \in JobById(j) : TRUE
                    IN IF ~DeleteJobAllowed(r.role, u, job)
                       THEN Respond([r EXCEPT !.owner = job.recruiterId], 403)
                       ELSE [r EXCEPT !.owner = job.recruiterId, !.pc = "delApps"])
  /\ UNCHANGED <<disk, store, nextId, hist>>

\* The cascade both job deletes run: the job's applications, ...
AppsOfJob(j) == {a \in applications : a.jobId = j}
SavedOfJob(j) == {s \in savedJobs : s.jobId = j}
DeleteJobApps(p) ==
  /\ inflight[p].op \in {"deleteJob", "adminDeleteJob"}
  /\ inflight[p].pc = "delApps"
  /\ applications' = applications \ AppsOfJob(inflight[p].id)
  /\ Put(p, [inflight[p] EXCEPT !.pc = "delSaved",
                                !.wrote = @ \/ AppsOfJob(inflight[p].id) # {}])
  /\ UNCHANGED <<disk, users, userRole, jobs, savedJobs, profiles, experiences, education, nextId, hist>>

\* (variant: the saved-job entries are left in place)
DeleteJobSavedSkipped(p) ==
  /\ inflight[p].op \in {"deleteJob", "adminDeleteJob"}
  /\ inflight[p].pc = "delSaved"
  /\ Put(p, [inflight[p] EXCEPT !.pc = "delJob"])
  /\ UNCHANGED <<disk, store, nextId, hist>>
\* ... its saved-job entries, ...
DeleteJobSaved(p) ==
  /\ inflight[p].op \in {"deleteJob", "adminDeleteJob"}
  /\ inflight[p].pc = "delSaved"
  /\ savedJobs' = savedJobs \ SavedOfJob(inflight[p].id)
  /\ Put(p, [inflight[p] EXCEPT !.pc = "delJob",
                                !.wrote = @ \/ SavedOfJob(inflight[p].id) # {}])
  /\ UNCHANGED <<disk, users, userRole, jobs, applications, profiles, experiences, education, nextId, hist>>

\* ... and prisma.job.delete, which throws when the job is gone or referenced
JobDeleteOk(j) == JobById(j) # {} /\ ~JobReferenced(j)
DeleteJobRow(p) ==
  /\ inflight[p].op \in {"deleteJob", "adminDeleteJob"}
  /\ inflight[p].pc = "delJob"
  /\ LET r == inflight[p]
     IN IF JobDeleteOk(r.id)
        THEN /\ jobs' = jobs \ JobById(r.id)
             /\ Put(p, [Respond(r, 200) EXCEPT !.wrote = TRUE])
        ELSE Put(p, Respond(r, 500)) /\ UNCHANGED jobs
  /\ UNCHANGED <<disk, users, userRole, applications, savedJobs, profiles, experiences, education,
                 nextId, hist>>

\* (variant: no unique constraint on (userId, jobId))
SavedJobCreateOkFkOnly(u, j) == SavedJobFkOk(u, j)
\* ----------------------------------------------------- routes/savedJobs
\* prisma.savedJob.create: the table after the insert, or the same table when
\* the insert throws (unique (userId, jobId), foreign keys)
SavedJobCreateOk(u, j) == SavedJobUniqueOk(u, j) /\ SavedJobFkOk(u, j)
SavedJobCreate(u, j) ==
  IF SavedJobCreateOk(u, j)
  THEN savedJobs \cup {[id |-> nextId.saved, userId |-> u, jobId |-> j]}
  ELSE savedJobs

\* POST /saved-jobs/:jobId, up to the job lookup
SaveStart(p, u, j) ==
  /\ Free(p)
  /\ nextId.saved + Cardinality(Running("save")) <= MaxSaved
  /\ LET r == NewReq("save", u, j, EmptyObj)
     IN Put(p, IF ~requireRole({"JOB_SEEKER"}, r.role) THEN Respond(r, 403)
               ELSE IF JobById(j) = {} THEN Respond(r, 404)
               ELSE [r EXCEPT !.pc = "findExisting"])
  /\ UNCHANGED <<disk, store, nextId, hist>>

\* the existence check on (userId, jobId)
SaveFindExisting(p) ==
  /\ At(p, "save", "findExisting")
  /\ LET r == inflight[p]
     IN Put(p, IF SavedByUserJob(r.user, r.id) # {} THEN Respond(r, 400)
               ELSE [r EXCEPT !.pc = "create"])
  /\ UNCHANGED <<disk, store, nextId, hist>>

\* prisma.savedJob.create and the 200, or the catch block's 500
SaveCreate(p) ==
  /\ At(p, "save", "create")
  /\ LET r == inflight[p]
         after == SavedJobCreate(r.user, r.id)
     IN /\ savedJobs' = after
        /\ IF after # savedJobs
           THEN /\ Put(p, [Respond(r, 200) EXCEPT !.wrote = TRUE])
                /\ nextId' = [nextId EXCEPT !.saved = @ + 1]
                /\ hist' = HistSaved(r.user, r.id, "save")
           ELSE /\ Put(p, Respond(r, 500))
                /\ UNCHANGED <<nextId, hist>>
  /\ UNCHANGED <<disk, users, userRole, jobs, applications, profiles, experiences, education>>

\* DELETE /saved-jobs/:jobId, up to the lookup
RemoveStart(p, u, j) ==
  /\ Free(p)
  /\ LET r == NewReq("remove", u, j, EmptyObj)
     IN Put(p, IF ~requireRole({"JOB_SEEKER"}, r.role) THEN Respond(r, 403)
               ELSE IF SavedByUserJob(u, j) = {} THEN Respond(r, 404)
               ELSE [r EXCEPT !.pc = "delete"])
  /\ UNCHANGED <<disk, store, nextId, hist>>

\* prisma.savedJob.delete on the compound key: throws when the row is gone
RemoveDelete(p) ==
  /\ At(p, "remove", "delete")
  /\ LET r == inflight[p]
     IN IF SavedByUserJob(r.user, r.id) = {}
        THEN Put(p, Respond(r, 500)) /\ UNCHANGED <<savedJobs, hist>>
        ELSE /\ savedJobs' = savedJobs \ SavedByUserJob(r.user, r.id)
             /\ Put(p, [Respond(r, 200) EXCEPT !.wrote = TRUE])
             /\ hist' = HistSaved(r.user, r.id, "remove")
  /\ UNCHANGED <<disk, users, userRole, jobs, applications, profiles, experiences, education, nextId>>

\* (variant: the lookup keyed on the user alone)
CheckSavedResultAnyJob(u, j) == \E x \in savedJobs : x.userId = u
\* GET /saved-jobs/check/:jobId
CheckSavedResult(u, j) == SavedByUserJob(u, j) # {}
CheckSaved(p, u, j) ==
  /\ Free(p)
  /\ LET r == NewReq("check", u, j, EmptyObj)
     IN Put(p, IF ~requireRole({"JOB_SEEKER"}, r.role) THEN Respond(r, 403)
               ELSE [Respond(r, 200) EXCEPT !.outFlag = CheckSavedResult(u, j)])
  /\ UNCHANGED <<disk, store, nextId, hist>>

\* --------------------------------------------------------- routes/admin
\* PATCH /admin/users/:id/role: the validation, and prisma.user.update, which
\* throws when the user is gone
validRoles == <<Str(<<"JOB_SEEKER">>), Str(<<"RECRUITER">>), Str(<<"ADMIN">>)>>
UpdateRole(p, u, target, body) ==
  /\ Free(p)
  /\ LET r == [NewReq("updateRole", u, 0, body) EXCEPT !.owner = target]
     IN IF ~requireRole({"ADMIN"}, r.role)
        THEN Put(p, Respond(r, 403)) /\ UNCHANGED userRole
        ELSE IF ~Includes(validRoles, Get(body, "role"))
        THEN Put(p, Respond(r, 400)) /\ UNCHANGED userRole
        ELSE IF target \notin users
        THEN Put(p, Respond(r, 500)) /\ UNCHANGED userRole
        ELSE /\ userRole' = [userRole EXCEPT ![target] = body.role.s[1]]
             /\ Put(p, [Respond(r, 200) EXCEPT !.wrote = TRUE])
  /\ UNCHANGED <<disk, users, jobs, applications, savedJobs, profiles, experiences, education,
                 nextId, hist>>

\* DELETE /admin/jobs/:id: the first step of the cascade
AdminDeleteJobStart(p, u, j) ==
  /\ Free(p)
  /\ LET r == NewReq("adminDeleteJob", u, j, EmptyObj)
     IN IF ~requireRole({"ADMIN"}, r.role)
        THEN Put(p, Respond(r, 403)) /\ UNCHANGED applications
        ELSE /\ applications' = applications \ AppsOfJob(j)
             /\ Put(p, [r EXCEPT !.pc = "delSaved", !.wrote = AppsOfJob(j) # {}])
  /\ UNCHANGED <<disk, users, userRole, jobs, savedJobs, profiles, experiences, education, nextId, hist>>

\* DELETE /admin/users/:id: the applications of the user, ...
AppsOfUser(u) == {a \in applications : a.userId = u}
SavedOfUser(u) == {s \in savedJobs : s.userId = u}
JobsOfUser(u) == {j \in jobs : j.recruiterId = u}
DeleteUserStart(p, u, target) ==
  /\ Free(p)
  /\ LET r == NewReq("deleteUser", u, 0, EmptyObj)
     IN IF ~requireRole({"ADMIN"}, r.role)
        THEN Put(p, Respond([r EXCEPT !.owner = target], 403)) /\ UNCHANGED applications
        ELSE /\ applications' = applications \ AppsOfUser(target)
             /\ Put(p, [r EXCEPT !.owner = target, !.pc = "duSaved",
                                 !.wrote = AppsOfUser(target) # {}])
  /\ UNCHANGED <<disk, users, userRole, jobs, savedJobs, profiles, experiences, education, nextId, hist>>

\* ... the saved jobs of the user, ...
DeleteUserSaved(p) ==
  /\ At(p, "deleteUser", "duSaved")
  /\ LET r == inflight[p]
     IN /\ savedJobs' = savedJobs \ SavedOfUser(r.owner)
        /\ Put(p, [r EXCEPT !.pc = "duFindJobs",
                            !.wrote = @ \/ SavedOfUser(r.owner) # {}])
  /\ UNCHANGED <<disk, users, userRole, jobs, applications, profiles, experiences, education, nextId, hist>>

\* ... prisma.job.findMany({ where: { recruiterId } }), ...
DeleteUserFindJobs(p) ==
  /\ At(p, "deleteUser", "duFindJobs")
  /\ LET r == inflight[p]
         userJobs == {j.id : j \in JobsOfUser(r.owner)}
     IN Put(p, [r EXCEPT !.rest = userJobs,
                         !.pc = IF userJobs = {} THEN "duJobs" ELSE "duLoopApps"])
  /\ UNCHANGED <<disk, store, nextId, hist>>

\* ... for each of those jobs its applications ...
LoopJob(r) == CHOOSE j \in r.rest : \A k \in r.rest : j <= k
DeleteUserLoopApps(p) ==
  /\ At(p, "deleteUser", "duLoopApps")
  /\ LET r == inflight[p]
     IN /\ applications' = applications \ AppsOfJob(LoopJob(r))
        /\ Put(p, [r EXCEPT !.pc = "duLoopSaved",
                            !.wrote = @ \/ AppsOfJob(LoopJob(r)) # {}])
  /\ UNCHANGED <<disk, users, userRole, jobs, savedJobs, profiles, experiences, education, nextId, hist>>

\* ... and its saved-job entries, ...
DeleteUserLoopSaved(p) ==
  /\ At(p, "deleteUser", "duLoopSaved")
  /\ LET r == inflight[p]
         left == r.rest \ {LoopJob(r)}
     IN /\ savedJobs' = savedJobs \ SavedOfJob(LoopJob(r))
        /\ Put(p, [r EXCEPT !.rest = left,
                            !.pc = IF left = {} THEN "duJobs" ELSE "duLoopApps",
                            !.wrote = @ \/ SavedOfJob(LoopJob(r)) # {}])
  /\ UNCHANGED <<disk, users, userRole, jobs, applications, profiles, experiences, education, nextId, hist>>

\* ... prisma.job.deleteMany({ where: { recruiterId } }), which throws when one
\* of the jobs is still referenced, ...
JobDeleteManyOk(u) == \A j \in JobsOfUser(u) : ~JobReferenced(j.id)
DeleteUserJobs(p) ==
  /\ At(p, "deleteUser", "duJobs")
  /\ LET r == inflight[p]
     IN IF JobDeleteManyOk(r.owner)
        THEN /\ jobs' = jobs \ JobsOfUser(r.owner)
             /\ Put(p, [r EXCEPT !.pc = "duUser",
                                 !.wrote = @ \/ JobsOfUser(r.owner) # {}])
        ELSE Put(p, Respond(r, 500)) /\ UNCHANGED jobs
  /\ UNCHANGED <<disk, users, userRole, applications, savedJobs, profiles, experiences, education,
                 nextId, hist>>

\* (variant: the delete goes through while rows still refer to the user)
UserDeleteOkReferenced(u) == u \in users
\* ... and prisma.user.delete, which throws when the user is gone or still
\* referenced; the user's profile goes with the user.
UserDeleteOk(u) == u \in users /\ ~UserReferenced(u)
\* What the schema deletes with a user: the profile and its entries
ProfileIdsOf(u) == {q.id : q \in ProfileByUser(u)}
ProfilesAfterUserDelete(u) == profiles \ ProfileByUser(u)
ExperiencesAfterUserDelete(u) == {e \in experiences : e.profileId \notin ProfileIdsOf(u)}
EducationAfterUserDelete(u) == {e \in education : e.profileId \notin ProfileIdsOf(u)}
\* (variant: the answer does not wait for prisma.user.delete to succeed)
DeleteUserRowUnchecked(p) ==
  /\ At(p, "deleteUser", "duUser")
  /\ LET r == inflight[p]
     IN /\ Put(p, [Respond(r, 200) EXCEPT !.wrote = TRUE])
        /\ IF UserDeleteOk(r.owner)
           THEN /\ users' = users \ {r.owner}
                /\ userRole' = [userRole EXCEPT ![r.owner] = ""]
                /\ profiles' = ProfilesAfterUserDelete(r.owner)
                /\ experiences' = ExperiencesAfterUserDelete(r.owner)
                /\ education' = EducationAfterUserDelete(r.owner)
           ELSE UNCHANGED <<users, userRole, profiles, experiences, education>>
  /\ UNCHANGED <<disk, jobs, applications, savedJobs, nextId, hist>>

DeleteUserRow(p) ==
  /\ At(p, "deleteUser", "duUser")
  /\ LET r == inflight[p]
     IN IF UserDeleteOk(r.owner)
        THEN /\ users' = users \ {r.owner}
             /\ userRole' = [userRole EXCEPT ![r.owner] = ""]
             /\ profiles' = ProfilesAfterUserDelete(r.owner)
             /\ experiences' = ExperiencesAfterUserDelete(r.owner)
             /\ education' = EducationAfterUserDelete(r.owner)
             /\ Put(p, [Respond(r, 200) EXCEPT !.wrote = TRUE])
        ELSE /\ Put(p, Respond(r, 500))
             /\ UNCHANGED <<users, userRole, profiles, experiences, education>>
  /\ UNCHANGED <<disk, jobs, applications, savedJobs, nextId, hist>>

\* (variant: no unique constraint on userId)
ProfileCreateOkFkOnly(u) == ProfileFkOk(u)
\* ------------------------------------------------------- routes/profile
\* prisma.profile.create: the table after the insert, or the same table when
\* the insert throws (unique userId, foreign key)
ProfileCreateOk(u) == ProfileUniqueOk(u) /\ ProfileFkOk(u)
ProfileCreate(u, name) ==
  IF ProfileCreateOk(u)
  THEN profiles \cup {[id |-> nextId.profile, userId |-> u, name |-> name,
                       about |-> "", skills |-> <<>>, avatar |-> Null,
                       resume |-> Null]}
  ELSE profiles
ProfileMakers == {"getProfile", "putProfile", "addExperience", "addEducation",
                  "uploadResume", "uploadAvatar"}
ProfileBudget ==
  nextId.profile + Cardinality(UNION {Running(op) : op \in ProfileMakers}) <= MaxProfiles

\* GET /profile, up to the profile lookup
GetProfileStart(p, u) ==
  /\ Free(p)
  /\ ProfileBudget
  /\ LET r == NewReq("getProfile", u, 0, EmptyObj)
     IN Put(p, IF ProfileByUser(u) # {}
               THEN [Respond(r, 200) EXCEPT
                       !.outIds = <<(CHOOSE q \in ProfileByUser(u) : TRUE).id>>]
               ELSE [r EXCEPT !.pc = "findUser"])
  /\ UNCHANGED <<disk, store, nextId, hist>>

\* prisma.user.findUnique; user.name throws when the user is gone
GetProfileFindUser(p) ==
  /\ At(p, "getProfile", "findUser")
  /\ LET r == inflight[p]
     IN Put(p, IF r.user \notin users THEN Respond(r, 500)
               ELSE [r EXCEPT !.pc = "create"])
  /\ UNCHANGED <<disk, store, nextId, hist>>

\* prisma.profile.create and the 200, or the catch block's 500
GetProfileCreate(p) ==
  /\ At(p, "getProfile", "create")
  /\ LET r == inflight[p]
         after == ProfileCreate(r.user, r.user)
     IN /\ profiles' = after
        /\ IF after # profiles
           THEN /\ Put(p, [Respond(r, 200) EXCEPT !.outIds = <<nextId.profile>>,
                                                  !.wrote = TRUE])
                /\ nextId' = [nextId EXCEPT !.profile = @ + 1]
           ELSE Put(p, Respond(r, 500)) /\ UNCHANGED nextId
  /\ UNCHANGED <<disk, users, userRole, jobs, applications, savedJobs, experiences, education, hist>>

\* PUT /profile/basic | about | skills: prisma.profile.upsert with the fields
\* of the body (an undefined field is left as it is)
Field(value, old) == IF value.t = "string" THEN value.s[1] ELSE old
ProfileMerge(q, body) ==
  [q EXCEPT !.name = Field(Get(body, "name"), @),
            !.about = Field(Get(body, "about"), @),
            !.skills = IF Get(body, "skills").t = "array" THEN body.skills.s ELSE @]
PutProfileInvalid(body) == Has(body, "skills") /\ Get(body, "skills").t # "array"
PutProfile(p, u, body) ==
  /\ Free(p)
  /\ ProfileBudget
  /\ LET r == NewReq("putProfile", u, 0, body)
     IN IF PutProfileInvalid(body)
        THEN Put(p, Respond(r, 400)) /\ UNCHANGED <<profiles, nextId>>
        ELSE IF ProfileByUser(u) # {}
        THEN LET q == CHOOSE x \in ProfileByUser(u) : TRUE
             IN /\ profiles' = (profiles \ {q}) \cup {ProfileMerge(q, body)}
                /\ Put(p, [Respond(r, 200) EXCEPT !.outIds = <<q.id>>, !.wrote = TRUE])
                /\ UNCHANGED nextId
        ELSE IF ~ProfileFkOk(u)
        THEN Put(p, Respond(r, 500)) /\ UNCHANGED <<profiles, nextId>>
        ELSE /\ profiles' = profiles \cup
                  {ProfileMerge([id |-> nextId.profile, userId |-> u, name |-> "",
                                 about |-> "", skills |-> <<>>, avatar |-> Null,
                                 resume |-> Null], body)}
             /\ nextId' = [nextId EXCEPT !.profile = @ + 1]
             /\ Put(p, [Respond(r, 200) EXCEPT !.outIds = <<nextId.profile>>,
                                               !.wrote = TRUE])
  /\ UNCHANGED <<disk, users, userRole, jobs, applications, savedJobs, experiences, education, hist>>

\* POST /profile/experience and POST /profile/education: the required fields
AddExperienceValid(body) ==
  Truthy(Get(body, "title")) /\ Truthy(Get(body, "company")) /\ Truthy(Get(body, "startDate"))
AddEducationValid(body) ==
  /\ Truthy(Get(body, "institution")) /\ Truthy(Get(body, "degree"))
  /\ Truthy(Get(body, "fieldOfStudy")) /\ Truthy(Get(body, "startYear"))
\* (variant: the profile is looked up and created before the validation)
AddEntryStartCreateFirst(p, op, u, body) ==
  /\ Free(p)
  /\ ProfileBudget
  /\ IF op = "addExperience"
     THEN nextId.exp + Cardinality(Running(op)) <= MaxExps
     ELSE nextId.edu + Cardinality(Running(op)) <= MaxEdus
  /\ LET r == NewReq(op, u, 0, body)
         valid == IF op = "addExperience" THEN AddExperienceValid(body)
                  ELSE AddEducationValid(body)
         after == IF ProfileByUser(u) # {} THEN profiles ELSE ProfileCreate(u, "")
         mine == {q \in after : q.userId = u}
     IN /\ profiles' = after
        /\ nextId' = [nextId EXCEPT !.profile = IF after # profiles THEN @ + 1 ELSE @]
        /\ Put(p, IF mine = {} THEN Respond(r, 500)
                  ELSE IF ~valid THEN Respond([r EXCEPT !.wrote = after # profiles], 400)
                  ELSE [r EXCEPT !.id = (CHOOSE q \in mine : TRUE).id,
                                 !.wrote = after # profiles, !.pc = "createEntry"])
  /\ UNCHANGED <<disk, users, userRole, jobs, applications, savedJobs, experiences, education,
                 hist>>
\* up to the profile lookup; the request keeps the id of the profile found
AddEntryStart(p, op, u, body) ==
  /\ Free(p)
  /\ ProfileBudget
  /\ IF op = "addExperience"
     THEN nextId.exp + Cardinality(Running(op)) <= MaxExps
     ELSE nextId.edu + Cardinality(Running(op)) <= MaxEdus
  /\ LET r == NewReq(op, u, 0, body)
         valid == IF op = "addExperience" THEN AddExperienceValid(body)
                  ELSE AddEducationValid(body)
     IN Put(p, IF ~valid THEN Respond(r, 400)
               ELSE IF ProfileByUser(u) # {}
               THEN [r EXCEPT !.id = (CHOOSE q \in ProfileByUser(u) : TRUE).id,
                              !.pc = "createEntry"]
               ELSE [r EXCEPT !.pc = "createProfile"])
  /\ UNCHANGED <<disk, store, nextId, hist>>

\* prisma.profile.create({ data: { userId } }) for a caller without profile
AddEntryCreateProfile(p) ==
  /\ inflight[p].op \in {"addExperience", "addEducation"}
  /\ inflight[p].pc = "createProfile"
  /\ LET r == inflight[p]
         after == ProfileCreate(r.user, "")
     IN /\ profiles' = after
        /\ IF after # profiles
           THEN /\ Put(p, [r EXCEPT !.id = nextId.profile, !.pc = "createEntry",
                                    !.wrote = TRUE])
                /\ nextId' = [nextId EXCEPT !.profile = @ + 1]
           ELSE Put(p, Respond(r, 500)) /\ UNCHANGED nextId
  /\ UNCHANGED <<disk, users, userRole, jobs, applications, savedJobs, experiences, education, hist>>

\* prisma.experience.create: endDate: current ? null : endDate,
\* current: current || false
ExperienceRow(id, profileId, body) ==
  [id |-> id, profileId |-> profileId,
   endDate |-> IF Truthy(Get(body, "current")) THEN Null
               ELSE IF Get(body, "endDate").t = "undefined" THEN Null
               ELSE Get(body, "endDate"),
   current |-> Truthy(Get(body, "current"))]
\* the insert throws when the profile is gone
EntryFkOk(profileId) == \E q \in profiles : q.id = profileId
AddExperienceCreate(p) ==
  /\ At(p, "addExperience", "createEntry")
  /\ LET r == inflight[p]
     IN IF EntryFkOk(r.id)
        THEN /\ experiences' = experiences \cup {ExperienceRow(nextId.exp, r.id, r.body)}
             /\ nextId' = [nextId EXCEPT !.exp = @ + 1]
             /\ Put(p, [Respond(r, 201) EXCEPT !.outIds = <<nextId.exp>>, !.wrote = TRUE])
        ELSE Put(p, Respond(r, 500)) /\ UNCHANGED <<experiences, nextId>>
  /\ UNCHANGED <<disk, users, userRole, jobs, applications, savedJobs, profiles, education, hist>>

AddEducationCreate(p) ==
  /\ At(p, "addEducation", "createEntry")
  /\ LET r == inflight[p]
     IN IF EntryFkOk(r.id)
        THEN /\ education' = education \cup
                  {[id |-> nextId.edu, profileId |-> r.id,
                    degree |-> Field(Get(r.body, "degree"), "")]}
             /\ nextId' = [nextId EXCEPT !.edu = @ + 1]
             /\ Put(p, [Respond(r, 201) EXCEPT !.outIds = <<nextId.edu>>, !.wrote = TRUE])
        ELSE Put(p, Respond(r, 500)) /\ UNCHANGED <<education, nextId>>
  /\ UNCHANGED <<disk, users, userRole, jobs, applications, savedJobs, profiles, experiences, hist>>

\* PUT and DELETE /profile/experience/:id and /profile/education/:id
EntryOps == {"updateExperience", "deleteExperience", "updateEducation", "deleteEducation"}
EntryTable(op) ==
  IF op \in {"updateExperience", "deleteExperience"} THEN experiences ELSE education
EntryById(op, id) == {x \in EntryTable(op) : x.id = id}
\* (variant: the entry is taken for the caller's whoever owns its profile)
EntryOwnedAnyone(u, entry) == TRUE
\* existing.profile.userId === req.user.userId
EntryOwned(u, entry) == \E q \in profiles : q.id = entry.profileId /\ q.userId = u
\* the lookup and the ownership check
ChangeEntryStart(p, op, u, id, body) ==
  /\ Free(p)
  /\ LET r == NewReq(op, u, id, body)
     IN Put(p, IF EntryById(op, id) = {} THEN Respond(r, 403)
               ELSE IF ~EntryOwned(u, CHOOSE x \in EntryById(op, id) : TRUE)
               THEN Respond(r, 403)
               ELSE [r EXCEPT !.pc = "write"])
  /\ UNCHANGED <<disk, store, nextId, hist>>

\* (variant: the end date of the body is stored as it came)
ExperienceUpdateKeepEndDate(row, body) ==
  [row EXCEPT !.endDate = IF Get(body, "endDate").t = "undefined" THEN @
                          ELSE Get(body, "endDate"),
              !.current = Truthy(Get(body, "current"))]
\* prisma.experience.update: endDate: current ? null : endDate (undefined
\* leaves the column as it is), current: current || false
ExperienceUpdate(row, body) ==
  [row EXCEPT !.endDate = IF Truthy(Get(body, "current")) THEN Null
                          ELSE IF Get(body, "endDate").t = "undefined" THEN @
                          ELSE Get(body, "endDate"),
              !.current = Truthy(Get(body, "current"))]
\* the store takes a boolean for current and a date or null for endDate
ExperienceUpdateOk(body) ==
  /\ Get(body, "current").t \in {"true", "false", "undefined", "null"}
  /\ Get(body, "endDate").t \in {"string", "undefined", "null"}
\* the update throws when the row is gone
UpdateExperienceWrite(p) ==
  /\ At(p, "updateExperience", "write")
  /\ LET r == inflight[p]
     IN IF EntryById(r.op, r.id) = {} \/ ~ExperienceUpdateOk(r.body)
        THEN Put(p, Respond(r, 500)) /\ UNCHANGED experiences
        ELSE LET row == CHOOSE x \in EntryById(r.op, r.id) : TRUE
             IN /\ experiences' = (experiences \ {row}) \cup {ExperienceUpdate(row, r.body)}
                /\ Put(p, [Respond(r, 200) EXCEPT !.outIds = <<r.id>>, !.wrote = TRUE])
  /\ UNCHANGED <<disk, users, userRole, jobs, applications, savedJobs, profiles, education, nextId, hist>>

UpdateEducationWrite(p) ==
  /\ At(p, "updateEducation", "write")
  /\ LET r == inflight[p]
     IN IF EntryById(r.op, r.id) = {}
        THEN Put(p, Respond(r, 500)) /\ UNCHANGED education
        ELSE LET row == CHOOSE x \in EntryById(r.op, r.id) : TRUE
             IN /\ education' = (education \ {row})
                       \cup {[row EXCEPT !.degree = Field(Get(r.body, "degree"), @)]}
                /\ Put(p, [Respond(r, 200) EXCEPT !.outIds = <<r.id>>, !.wrote = TRUE])
  /\ UNCHANGED <<disk, users, userRole, jobs, applications, savedJobs, profiles, experiences, nextId, hist>>

\* the delete throws when the row is gone
DeleteExperienceWrite(p) ==
  /\ At(p, "deleteExperience", "write")
  /\ LET r == inflight[p]
     IN IF EntryById(r.op, r.id) = {}
        THEN Put(p, Respond(r, 500)) /\ UNCHANGED experiences
        ELSE /\ experiences' = experiences \ EntryById(r.op, r.id)
             /\ Put(p, [Respond(r, 200) EXCEPT !.wrote = TRUE])
  /\ UNCHANGED <<disk, users, userRole, jobs, applications, savedJobs, profiles, education, nextId, hist>>

DeleteEducationWrite(p) ==
  /\ At(p, "deleteEducation", "write")
  /\ LET r == inflight[p]
     IN IF EntryById(r.op, r.id) = {}
        THEN Put(p, Respond(r, 500)) /\ UNCHANGED education
        ELSE /\ education' = education \ EntryById(r.op, r.id)
             /\ Put(p, [Respond(r, 200) EXCEPT !.wrote = TRUE])
  /\ UNCHANGED <<disk, users, userRole, jobs, applications, savedJobs, profiles, experiences, nextId, hist>>

\* path.extname(name): the name from its last "." on; "" when it has no "."
\* or only a leading one
Dots(name) == {i \in 1..Len(name) : name[i] = "."}
extname(name) ==
  IF Dots(name) \ {1} = {} THEN <<>>
  ELSE SubSeq(name, CHOOSE i \in Dots(name) : \A k \in Dots(name) : k <= i, Len(name))
ResumeTypes == <<<<".", "p", "d", "f">>, <<".", "d", "o", "c">>,
                 <<".", "d", "o", "c", "x">>>>
AvatarTypes == <<<<".", "j", "p", "g">>, <<".", "j", "p", "e", "g">>,
                 <<".", "p", "n", "g">>, <<".", "g", "i", "f">>>>
\* fileFilter(req, file, cb): TRUE for cb(null, true), FALSE for cb(new Error(..))
fileFilter(file) ==
  IF file.fieldname = "resume"
  THEN Includes(ResumeTypes, toLowerCase(extname(file.originalname)))
  ELSE IF file.fieldname = "avatar"
  THEN Includes(AvatarTypes, toLowerCase(extname(file.originalname)))
  ELSE TRUE
\* storage: the directory and the name of the file written
StoredFile(u, file) ==
  [dir |-> IF file.fieldname = "resume" THEN "resumes" ELSE "avatars",
   user |-> u, n |-> nextId.file, ext |-> extname(file.originalname)]

\* POST /profile/resume and POST /profile/avatar: upload.single(field), then
\* the handler up to its first store operation.  A file the filter refuses
\* goes to the application's error handler.
UploadOps == {"uploadResume", "uploadAvatar"}
UploadStart(p, op, u, file) ==
  /\ Free(p)
  /\ ProfileBudget
  /\ nextId.file + Cardinality(UNION {Running(o) : o \in UploadOps}) <= MaxFiles
  /\ LET r == NewReq(op, u, 0, file)
     IN IF file = EmptyObj
        THEN Put(p, Respond(r, 400)) /\ UNCHANGED <<disk, nextId>>
        ELSE IF ~fileFilter(file)
        THEN Put(p, Respond(r, 500)) /\ UNCHANGED <<disk, nextId>>
        ELSE /\ disk' = disk \cup {StoredFile(u, file)}
             /\ nextId' = [nextId EXCEPT !.file = @ + 1]
             /\ Put(p, [r EXCEPT !.data = StoredFile(u, file), !.wrote = TRUE,
                                 !.pc = IF op = "uploadAvatar" THEN "findOld"
                                        ELSE "upsert"])
  /\ UNCHANGED <<store, hist>>

\* (variant: the old avatar file stays on disk)
AvatarFindOldKeepFile(p) ==
  /\ At(p, "uploadAvatar", "findOld")
  /\ Put(p, [inflight[p] EXCEPT !.pc = "upsert"])
  /\ UNCHANGED <<disk, store, nextId, hist>>
\* the profile lookup and fs.unlinkSync of the old avatar, if it is on disk
AvatarFindOld(p) ==
  /\ At(p, "uploadAvatar", "findOld")
  /\ LET r == inflight[p]
         old == {q.avatar : q \in {x \in ProfileByUser(r.user) : x.avatar # Null}}
     IN /\ disk' = disk \ old
        /\ Put(p, [r EXCEPT !.rest = old, !.pc = "upsert"])
  /\ UNCHANGED <<store, nextId, hist>>

\* prisma.profile.upsert with the path of the new file
UploadUpsert(p) ==
  /\ inflight[p].op \in UploadOps
  /\ inflight[p].pc = "upsert"
  /\ LET r == inflight[p]
         blank == [id |-> nextId.profile, userId |-> r.user, name |-> "", about |-> "",
                   skills |-> <<>>, avatar |-> Null, resume |-> Null]
         set(q) == IF r.op = "uploadAvatar" THEN [q EXCEPT !.avatar = r.data]
                   ELSE [q EXCEPT !.resume = r.data]
     IN IF ProfileByUser(r.user) # {}
        THEN LET q == CHOOSE x \in ProfileByUser(r.user) : TRUE
             IN /\ profiles' = (profiles \ {q}) \cup {set(q)}
                /\ Put(p, Respond(r, 200))
                /\ UNCHANGED nextId
        ELSE IF ~ProfileFkOk(r.user)
        THEN Put(p, Respond(r, 500)) /\ UNCHANGED <<profiles, nextId>>
        ELSE /\ profiles' = profiles \cup {set(blank)}
             /\ nextId' = [nextId EXCEPT !.profile = @ + 1]
             /\ Put(p, Respond(r, 200))
  /\ UNCHANGED <<disk, users, userRole, jobs, applications, savedJobs, experiences, education, hist>>

\* DELETE /profile/avatar: the lookup and fs.unlinkSync of the file
DeleteAvatarStart(p, u) ==
  /\ Free(p)
  /\ LET r == NewReq("deleteAvatar", u, 0, EmptyObj)
         found == {q \in ProfileByUser(u) : q.avatar # Null}
     IN IF found = {}
        THEN Put(p, Respond(r, 404)) /\ UNCHANGED disk
        ELSE /\ disk' = disk \ {q.avatar : q \in found}
             /\ Put(p, [r EXCEPT !.pc = "clear",
                                 !.wrote = \E q \in found : q.avatar \in disk])
  /\ UNCHANGED <<store, nextId, hist>>

\* prisma.profile.update({ data: { avatar: null } }): throws when the profile
\* is gone
DeleteAvatarClear(p) ==
  /\ At(p, "deleteAvatar", "clear")
  /\ LET r == inflight[p]
     IN IF ProfileByUser(r.user) = {}
        THEN Put(p, Respond(r, 500)) /\ UNCHANGED profiles
        ELSE LET q == CHOOSE x \in ProfileByUser(r.user) : TRUE
             IN /\ profiles' = (profiles \ {q}) \cup {[q EXCEPT !.avatar = Null]}
                /\ Put(p, [Respond(r, 200) EXCEPT !.wrote = TRUE])
  /\ UNCHANGED <<disk, users, userRole, jobs, applications, savedJobs, experiences, education,
                 nextId, hist>>

\* DELETE /profile/resume: the lookup and fs.unlinkSync of the file
DeleteResumeStart(p, u) ==
  /\ Free(p)
  /\ LET r == NewReq("deleteResume", u, 0, EmptyObj)
         found == {q \in ProfileByUser(u) : q.resume # Null}
     IN IF found = {}
        THEN Put(p, Respond(r, 404)) /\ UNCHANGED disk
        ELSE /\ disk' = disk \ {q.resume : q \in found}
             /\ Put(p, [r EXCEPT !.pc = "clear",
                                 !.wrote = \E q \in found : q.resume \in disk])
  /\ UNCHANGED <<store, nextId, hist>>

\* prisma.profile.update({ data: { resume: null, .. } }): throws when the
\* profile is gone
DeleteResumeClear(p) ==
  /\ At(p, "deleteResume", "clear")
  /\ LET r == inflight[p]
     IN IF ProfileByUser(r.user) = {}
        THEN Put(p, Respond(r, 500)) /\ UNCHANGED profiles
        ELSE LET q == CHOOSE x \in ProfileByUser(r.user) : TRUE
             IN /\ profiles' = (profiles \ {q}) \cup {[q EXCEPT !.resume = Null]}
                /\ Put(p, [Respond(r, 200) EXCEPT !.wrote = TRUE])
  /\ UNCHANGED <<disk, users, userRole, jobs, applications, savedJobs, experiences, education,
                 nextId, hist>>

\* GET /profile/:userId (public): 404 when the user has no profile
GetProfileById(p, target) ==
  /\ Free(p)
  /\ LET r == [NewReq("getProfileById", "", 0, EmptyObj) EXCEPT !.role = "",
                                                                 !.owner = target]
     IN Put(p, IF ProfileByUser(target) = {} THEN Respond(r, 404)
               ELSE [Respond(r, 200) EXCEPT
                       !.outIds = <<(CHOOSE q \in ProfileByUser(target) : TRUE).id>>])
  /\ UNCHANGED <<disk, store, nextId, hist>>

\* ------------------------------------------------------- specifications
InitEmpty ==
  /\ users = Users
  /\ userRole = [u \in Users |-> RoleOf(u)]
  /\ jobs = {}
  /\ applications = {}
  /\ savedJobs = {}
  /\ profiles = {}
  /\ experiences = {}
  /\ education = {}
  /\ disk = {}
  /\ nextId = [job |-> 1, app |-> 1, saved |-> 1, profile |-> 1, exp |-> 1, edu |-> 1,
               file |-> 1]
  /\ inflight = [p \in Procs |-> Idle]
  /\ last = Idle
  /\ hist = [app |-> "none", saved |-> "none"]

\* Two jobs already posted, one by each recruiter.
Job1 == [id |-> 1, recruiterId |-> "r1", category |-> Frontend, title |-> <<"T">>,
         createdAt |-> 1]
Job2 == [id |-> 2, recruiterId |-> "r2", category |-> Backend, title |-> <<"T">>,
         createdAt |-> 2]
InitPosted ==
  /\ users = Users
  /\ userRole = [u \in Users |-> RoleOf(u)]
  /\ jobs = {Job1, Job2}
  /\ applications = {}
  /\ savedJobs = {}
  /\ profiles = {}
  /\ experiences = {}
  /\ education = {}
  /\ disk = {}
  /\ nextId = [job |-> 3, app |-> 1, saved |-> 1, profile |-> 1, exp |-> 1, edu |-> 1,
               file |-> 1]
  /\ inflight = [p \in Procs |-> Idle]
  /\ last = Idle
  /\ hist = [app |-> "none", saved |-> "none"]

\* The application routes and the job deletes, by process p
ApplicationRoutes(p, callers) ==
  \/ \E u \in callers, j \in JobIds : ApplyStart(p, u, j)
  \/ ApplyFindExisting(p)
  \/ ApplyCreate(p)
  \/ \E u \in callers, a \in AppIds : GetApplication(p, u, a)
  \/ \E u \in callers, a \in AppIds : WithdrawStart(p, u, a)
  \/ WithdrawDelete(p)
JobDeleteRoutes(p, callers) ==
  \/ \E u \in callers, j \in JobIds : DeleteJobStart(p, u, j)
  \/ \E u \in callers, j \in JobIds : AdminDeleteJobStart(p, u, j)
  \/ DeleteJobApps(p)
  \/ DeleteJobSaved(p)
  \/ DeleteJobRow(p)

\* One request at a time: applications
NextAppSeq == ApplicationRoutes(1, Users) \/ JobDeleteRoutes(1, Users)
SpecAppSeq == InitPosted /\ [][NextAppSeq]_vars

\* Concurrent requests: applications
NextApp ==
  \E p \in Procs : ApplicationRoutes(p, Seekers) \/ JobDeleteRoutes(p, {"r1"})
SpecApp == InitPosted /\ [][NextApp]_vars

\* Request values of the job routes
MixedFrontend == Str(<<"F", "r", "o", "n", "t", "e", "n", "d">>)
PaddedBackend == Str(<<" ", "b", "a", "c", "k", "e", "n", "d", " ">>)
UpperFullstack == Str(<<"F", "U", "L", "L", "S", "T", "A", "C", "K">>)
Mobile == Str(<<"m", "o", "b", "i", "l", "e">>)
Bogus == Str(<<"b", "o", "g", "u", "s">>)
Blank == Str(<<" ">>)
Empty == Str(<<>>)
ValidInputs == {MixedFrontend, PaddedBackend, UpperFullstack, Str(Frontend)}
InvalidInputs == {Mobile, Bogus, Blank, Empty, NotAString}
CategoryInputs == ValidInputs \cup InvalidInputs

\* Queries of GET /jobs
Queries ==
  {EmptyObj}
  \cup {[role |-> c] : c \in CategoryInputs \ {NotAString}}
  \cup {[category |-> c] : c \in {MixedFrontend, PaddedBackend, Bogus, Empty}}
  \cup {[role |-> Bogus, category |-> MixedFrontend],
        [role |-> PaddedBackend, category |-> Bogus]}

\* Bodies of POST /jobs
FullBody ==
  [title |-> Str(<<"E">>), company |-> Str(<<"A">>), location |-> Str(<<"R">>),
   salary |-> Str(<<"1">>), description |-> Str(<<"d">>)]
CreateBodies ==
  {FullBody}
  \cup {SetKey(FullBody, "category", c) : c \in CategoryInputs \cup {Null}}
  \cup {SetKey(FullBody, "role", c) : c \in {PaddedBackend, Mobile}}
  \cup {SetKey(SetKey(FullBody, "role", Null), "category", MixedFrontend)}
  \cup {DeleteKey(FullBody, k) : k \in DOMAIN FullBody}
  \cup {SetKey(FullBody, "salary", Empty)}

\* Bodies of PUT /jobs/:id
UpdateBodies ==
  {EmptyObj,
   [title |-> Str(<<"Q">>)],
   [category |-> MixedFrontend],
   [role |-> PaddedBackend, title |-> Str(<<"Q">>)],
   [category |-> Mobile, title |-> Str(<<"Q">>)],
   [role |-> Empty, category |-> Str(Backend)],
   [recruiterId |-> Str(<<"r2">>)],
   [recruiterId |-> Str(<<"nobody">>)],
   [views |-> Str(<<"9">>)]}

\* One request at a time: posting and listing jobs
NextCatalog ==
  \/ \E q \in Queries : ListJobs(1, q)
  \/ \E u \in Users, b \in CreateBodies : CreateJob(1, u, b)
SpecCatalog == InitEmpty /\ [][NextCatalog]_vars

\* The two posted jobs, with an application and a saved-job entry on the first
InitBusy ==
  /\ users = Users
  /\ userRole = [u \in Users |-> RoleOf(u)]
  /\ jobs = {Job1, Job2}
  /\ applications = {[id |-> 1, userId |-> "s1", jobId |-> 1, status |-> "PENDING"]}
  /\ savedJobs = {[id |-> 1, userId |-> "s2", jobId |-> 1]}
  /\ profiles = {}
  /\ experiences = {}
  /\ education = {}
  /\ disk = {}
  /\ nextId = [job |-> 3, app |-> 2, saved |-> 2, profile |-> 1, exp |-> 1, edu |-> 1,
               file |-> 1]
  /\ inflight = [p \in Procs |-> Idle]
  /\ last = Idle
  /\ hist = [app |-> "none", saved |-> "none"]

\* One request at a time: updating and deleting jobs
NextJobsSeq ==
  \/ \E u \in Users, j \in JobIds, b \in UpdateBodies : UpdateJobStart(1, u, j, b)
  \/ UpdateJobWrite(1)
  \/ JobDeleteRoutes(1, Users)
SpecJobsSeq == InitBusy /\ [][NextJobsSeq]_vars

\* Bodies of PATCH /applications/:id/status
StatusBodies ==
  {[status |-> Str(<<"REVIEWED">>)], [status |-> Str(<<"ACCEPTED">>)],
   [status |-> Str(<<"HIRED">>)], [status |-> Str(<<"accepted">>)], EmptyObj}

\* One request at a time: applications and their status
NextStatusSeq ==
  \/ \E u \in Seekers : ApplyStart(1, u, 2)
  \/ ApplyFindExisting(1)
  \/ ApplyCreate(1)
  \/ \E u \in Seekers, a \in AppIds : WithdrawStart(1, u, a)
  \/ WithdrawDelete(1)
  \/ \E u \in Users, a \in AppIds, b \in StatusBodies : UpdateStatusStart(1, u, a, b)
  \/ UpdateStatusWrite(1)
  \/ \E u \in Recruiters : UpdateJobStart(1, u, 1, [recruiterId |-> Str(<<"r2">>)])
  \/ UpdateJobWrite(1)
SpecStatusSeq == InitBusy /\ [][NextStatusSeq]_vars

\* Concurrent requests: the owner or the admin deleting job 1 while seekers
\* apply to it and save it
NextJobDelete ==
  \E p \in Procs :
    \/ \E u \in {"r1", "a1"} : DeleteJobStart(p, u, 1)
    \/ AdminDeleteJobStart(p, "a1", 1)
    \/ DeleteJobApps(p)
    \/ DeleteJobSaved(p)
    \/ DeleteJobRow(p)
    \/ ApplyStart(p, "s2", 1)
    \/ ApplyFindExisting(p)
    \/ ApplyCreate(p)
    \/ SaveStart(p, "s1", 1)
    \/ SaveFindExisting(p)
    \/ SaveCreate(p)
SpecJobDelete == InitBusy /\ [][NextJobDelete]_vars

\* The saved-job routes, by process p
SavedJobRoutes(p, callers) ==
  \/ \E u \in callers, j \in JobIds : SaveStart(p, u, j)
  \/ SaveFindExisting(p)
  \/ SaveCreate(p)
  \/ \E u \in callers, j \in JobIds : RemoveStart(p, u, j)
  \/ RemoveDelete(p)
  \/ \E u \in callers, j \in JobIds : CheckSaved(p, u, j)

\* One request at a time: saved jobs
NextSavedSeq == SavedJobRoutes(1, Users) \/ JobDeleteRoutes(1, Users)
SpecSavedSeq == InitPosted /\ [][NextSavedSeq]_vars

\* Concurrent requests: saved jobs
NextSaved ==
  \E p \in Procs : SavedJobRoutes(p, Seekers) \/ JobDeleteRoutes(p, {"r1"})
SpecSaved == InitPosted /\ [][NextSaved]_vars

\* Bodies of the profile routes
PutBodies ==
  {[about |-> Str(<<"A">>)], [skills |-> Arr(<<"k">>)], [skills |-> Str(<<"k">>)]}
ExperienceBodies ==
  {[title |-> Str(<<"t">>), company |-> Str(<<"c">>), startDate |-> Str(<<"2020">>),
    current |-> True, endDate |-> Str(<<"2021">>)],
   [title |-> Str(<<"t">>), company |-> Str(<<"c">>), startDate |-> Str(<<"2020">>),
    endDate |-> Str(<<"2021">>)],
   [company |-> Str(<<"c">>), startDate |-> Str(<<"2020">>)]}
EducationBodies ==
  {[institution |-> Str(<<"i">>), degree |-> Str(<<"d">>), fieldOfStudy |-> Str(<<"f">>),
    startYear |-> Str(<<"2015">>)],
   [institution |-> Str(<<"i">>), fieldOfStudy |-> Str(<<"f">>),
    startYear |-> Str(<<"2015">>)]}

\* The profile routes that may create the caller's profile, by process p
ProfileRoutes(p, callers) ==
  \/ \E u \in callers : GetProfileStart(p, u)
  \/ GetProfileFindUser(p)
  \/ GetProfileCreate(p)
  \/ \E u \in callers, b \in PutBodies : PutProfile(p, u, b)
  \/ \E u \in callers, b \in ExperienceBodies : AddEntryStart(p, "addExperience", u, b)
  \/ \E u \in callers, b \in EducationBodies : AddEntryStart(p, "addEducation", u, b)
  \/ AddEntryCreateProfile(p)
  \/ AddExperienceCreate(p)
  \/ AddEducationCreate(p)

\* Concurrent requests: profiles
NextProfile == \E p \in Procs : ProfileRoutes(p, {"s1", "r1"})
SpecProfile == InitEmpty /\ [][NextProfile]_vars

\* Bodies of PUT /profile/experience/:id and PUT /profile/education/:id
ExperienceUpdateBodies ==
  {[current |-> True, endDate |-> Str(<<"2022">>)], [endDate |-> Str(<<"2022">>)],
   [current |-> True], [current |-> False], EmptyObj}
EducationUpdateBodies == {[degree |-> Str(<<"m">>)], EmptyObj}
ExpIds == 1..MaxExps
EduIds == 1..MaxEdus

\* Concurrent requests: two users adding, updating and deleting entries
EntryRoutes(p, callers) ==
  \/ \E u \in callers, b \in ExperienceBodies : AddEntryStart(p, "addExperience", u, b)
  \/ \E u \in callers, b \in EducationBodies : AddEntryStart(p, "addEducation", u, b)
  \/ AddEntryCreateProfile(p)
  \/ AddExperienceCreate(p)
  \/ AddEducationCreate(p)
  \/ \E u \in callers, i \in ExpIds, b \in ExperienceUpdateBodies :
       ChangeEntryStart(p, "updateExperience", u, i, b)
  \/ \E u \in callers, i \in ExpIds : ChangeEntryStart(p, "deleteExperience", u, i, EmptyObj)
  \/ \E u \in callers, i \in EduIds, b \in EducationUpdateBodies :
       ChangeEntryStart(p, "updateEducation", u, i, b)
  \/ \E u \in callers, i \in EduIds : ChangeEntryStart(p, "deleteEducation", u, i, EmptyObj)
  \/ UpdateExperienceWrite(p)
  \/ UpdateEducationWrite(p)
  \/ DeleteExperienceWrite(p)
  \/ DeleteEducationWrite(p)
NextEntries == \E p \in Procs : EntryRoutes(p, {"s1", "r1"})
SpecEntries == InitEmpty /\ [][NextEntries]_vars

\* Files of the upload requests (EmptyObj: the request carries no file)
File(field, name) == [fieldname |-> field, originalname |-> name]
AvatarFiles ==
  {File("avatar", <<"p", ".", "P", "N", "G">>), File("avatar", <<"p", ".", "e", "x", "e">>),
   File("avatar", <<"c", ".", "p", "d", "f">>), File("avatar", <<"p", "n", "g">>), EmptyObj}
ResumeFiles ==
  {File("resume", <<"c", ".", "p", "d", "f">>), File("resume", <<"c", ".", "p", "n", "g">>),
   File("resume", <<"c", ".", "p", "d", "f", ".", "s", "h">>)}

\* One request at a time: uploads
NextUploadsSeq ==
  \/ \E u \in {"s1", "r1"}, f \in AvatarFiles : UploadStart(1, "uploadAvatar", u, f)
  \/ \E u \in {"s1", "r1"}, f \in ResumeFiles : UploadStart(1, "uploadResume", u, f)
  \/ AvatarFindOld(1)
  \/ UploadUpsert(1)
  \/ \E u \in {"s1", "r1"} : DeleteAvatarStart(1, u)
  \/ DeleteAvatarClear(1)
SpecUploadsSeq == InitEmpty /\ [][NextUploadsSeq]_vars

\* Concurrent requests: the admin deleting users while they use the portal
DeleteUserRoutes(p, callers, targets) ==
  \/ \E u \in callers, t \in targets : DeleteUserStart(p, u, t)
  \/ DeleteUserSaved(p)
  \/ DeleteUserFindJobs(p)
  \/ DeleteUserLoopApps(p)
  \/ DeleteUserLoopSaved(p)
  \/ DeleteUserJobs(p)
  \/ DeleteUserRow(p)
NextAdmin ==
  \E p \in Procs :
    \/ DeleteUserRoutes(p, {"a1"}, {"s1", "r1"})
    \/ ApplyStart(p, "s1", 2)
    \/ ApplyFindExisting(p)
    \/ ApplyCreate(p)
    \/ SaveStart(p, "s1", 1)
    \/ SaveFindExisting(p)
    \/ SaveCreate(p)
    \/ CreateJob(p, "r1", FullBody)
    \/ GetProfileStart(p, "s1")
    \/ GetProfileFindUser(p)
    \/ GetProfileCreate(p)
SpecAdmin == InitBusy /\ [][NextAdmin]_vars

\* One request at a time: the routes of every router, with requests that the
\* handlers refuse and requests that they carry out
RoleBodies == {[role |-> Str(<<"RECRUITER">>)], [role |-> Str(<<"BOSS">>)], EmptyObj}
NextRejects ==
  \/ \E u \in {"s1", "r1"} : CreateJob(1, u, DeleteKey(FullBody, "title"))
  \/ \E j \in {1, 3} : GetJob(1, j)
  \/ \E u \in {"s1", "r1"}, j \in JobIds : GetApplicantsStart(1, u, j)
  \/ GetApplicantsList(1)
  \/ \E u \in {"s1", "r1"}, j \in JobIds : UpdateJobStart(1, u, j, [category |-> Mobile])
  \/ \E u \in {"s1", "r1"}, j \in {2, 3} : DeleteJobStart(1, u, j)
  \/ AdminDeleteJobStart(1, "r1", 1)
  \/ \E u \in {"s1", "r1"}, j \in JobIds : ApplyStart(1, u, j)
  \/ ApplyFindExisting(1)
  \/ ApplyCreate(1)
  \/ \E u \in {"s2", "r2"}, a \in {1, 3} : GetApplication(1, u, a)
  \/ \E u \in {"s1", "s2", "r1"} : WithdrawStart(1, u, 2)
  \/ WithdrawDelete(1)
  \/ \E u \in {"s1", "r1", "r2"}, a \in {1, 3},
        b \in {[status |-> Str(<<"ACCEPTED">>)], [status |-> Str(<<"HIRED">>)]} :
       UpdateStatusStart(1, u, a, b)
  \/ UpdateStatusWrite(1)
  \/ \E u \in {"s1", "r1"}, j \in {1, 3} : SaveStart(1, u, j)
  \/ SaveFindExisting(1)
  \/ SaveCreate(1)
  \/ \E u \in {"s1", "r1"} : RemoveStart(1, u, 1)
  \/ RemoveDelete(1)
  \/ \E b \in {[about |-> Str(<<"A">>)], [skills |-> Str(<<"k">>)]} : PutProfile(1, "s1", b)
  \/ \E b \in ExperienceBodies : AddEntryStart(1, "addExperience", "s1", b)
  \/ \E b \in EducationBodies : AddEntryStart(1, "addEducation", "s1", b)
  \/ AddEntryCreateProfile(1)
  \/ AddExperienceCreate(1)
  \/ AddEducationCreate(1)
  \/ \E u \in {"s1", "r1"} : ChangeEntryStart(1, "updateExperience", u, 1, [current |-> True])
  \/ \E u \in {"s1", "r1"} : ChangeEntryStart(1, "deleteEducation", u, 1, EmptyObj)
  \/ UpdateExperienceWrite(1)
  \/ DeleteEducationWrite(1)
  \/ \E op \in UploadOps : UploadStart(1, op, "s1", EmptyObj)
  \/ DeleteAvatarStart(1, "s1")
  \/ DeleteResumeStart(1, "s1")
  \/ \E t \in {"s1", "r1"} : GetProfileById(1, t)
  \/ \E u \in {"s1", "a1"}, b \in RoleBodies : UpdateRole(1, u, "r2", b)
  \/ DeleteUserStart(1, "s1", "r2")
SpecRejects == InitBusy /\ [][NextRejects]_vars

\* ---------------------------------------------------------------- claims
\* Rows of a pair, and an answer given in this step
RowsOf(table, u, j) == {x \in table : x.userId = u /\ x.jobId = j}
AnswersNow(op) == last'.op = op /\ last'.pc = "done"

\* C1: with one request at a time, an apply(u,j) by a job seeker for an
\* existing job is answered 400 and creates no row when an application of
\* (u,j) exists, and 201 with exactly one new row when none exists; a
\* successful withdraw removes the caller's application.  For the watched
\* pair: after a successful apply the next apply is answered 400, after a
\* successful withdraw the next apply is answered 201.
C1_ApplyAgain ==
  [][/\ (/\ AnswersNow("apply")
         /\ last'.role = "JOB_SEEKER"
         /\ \E j \in jobs : j.id = last'.id)
        => IF RowsOf(applications, last'.user, last'.id) # {}
           THEN last'.status = 400 /\ applications' = applications
           ELSE /\ last'.status = 201
                /\ Cardinality(RowsOf(applications', last'.user, last'.id)) = 1
                /\ applications \subseteq applications'
     /\ (AnswersNow("withdraw") /\ last'.status = 200)
        => /\ \E a \in applications : a.id = last'.id /\ a.userId = last'.user
           /\ applications' = {a \in applications : a.id # last'.id}
     /\ (/\ AnswersNow("apply")
         /\ last'.user = Watched.user /\ last'.id = Watched.job
         /\ \E j \in jobs : j.id = Watched.job)
        => /\ hist.app \in {"applied", "reapplied"} => last'.status = 400
           /\ hist.app = "withdrawn" => last'.status = 201
    ]_vars
C1_Witness == Answered("apply", 201) /\ hist.app = "reapplied"

\* C2: in every reachable state, whatever the interleaving of the requests,
\* the store holds at most one Application row per (userId, jobId).
C2_OneApplicationPerPair ==
  \A a, b \in applications : a.userId = b.userId /\ a.jobId = b.jobId => a = b
\* an apply lost the race: its existence check passed, its create threw
C2_Witness ==
  /\ Answered("apply", 500)
  /\ RowsOf(applications, last.user, last.id) # {}

\* C10 as stated: the application is returned only to the applicant or to the
\* owner of its job, everyone else gets 403, an absent id 404.
C10_Original ==
  last.op = "getApplication" =>
    IF \A a \in applications : a.id # last.id THEN last.status = 404
    ELSE LET app == CHOOSE a \in applications : a.id = last.id
             job == CHOOSE j \in jobs : j.id = app.jobId
         IN IF last.user = app.userId \/ last.user = job.recruiterId
            THEN last.status = 200 ELSE last.status = 403
\* C10 as amended: a JOB_SEEKER caller gets the application only if it is the
\* applicant, a RECRUITER caller only if it owns the job, both 403 otherwise;
\* a caller of any other role (ADMIN) gets the application; an absent id 404.
C10_Visibility ==
  last.op = "getApplication" =>
    IF \A a \in applications : a.id # last.id THEN last.status = 404
    ELSE LET app == CHOOSE a \in applications : a.id = last.id
             job == CHOOSE j \in jobs : j.id = app.jobId
         IN CASE last.role = "JOB_SEEKER" ->
                   last.status = IF last.user = app.userId THEN 200 ELSE 403
              [] last.role = "RECRUITER" ->
                   last.status = IF last.user = job.recruiterId THEN 200 ELSE 403
              [] OTHER -> last.status = 200 /\ last.outIds = <<app.id>>
C10_Witness ==
  /\ Answered("getApplication", 200)
  /\ last.role = "ADMIN"

\* The category each request value stands for (<<>>: none of the three)
ExpectedCategory(v) ==
  CASE v \in {MixedFrontend, Str(Frontend)} -> Frontend
    [] v = PaddedBackend -> Backend
    [] v = Str(Backend) -> Backend
    [] v = UpperFullstack -> Fullstack
    [] OTHER -> <<>>
\* The filter or category a query or body supplies: role, or category as its
\* alias (<<>>: neither is supplied)
Supplied(obj) ==
  IF "role" \in DOMAIN obj /\ obj.role # Null THEN <<obj.role>>
  ELSE IF "category" \in DOMAIN obj /\ obj.category # Null THEN <<obj.category>>
  ELSE <<>>
Listed(ids) == {ids[i] : i \in 1..Len(ids)}
IsNewestFirst(ids) ==
  \A i, k \in 1..Len(ids) :
    i < k => \E x, y \in jobs : x.id = ids[i] /\ y.id = ids[k] /\ x.createdAt > y.createdAt

\* C3 as stated: PUT and DELETE /jobs/j by any user other than the owner are
\* answered 403 and change nothing; by the owning recruiter they succeed (a
\* PUT with a body the store accepts).
C3_ValidBodies ==
  {EmptyObj, [title |-> Str(<<"Q">>)], [category |-> MixedFrontend],
   [role |-> PaddedBackend, title |-> Str(<<"Q">>)], [recruiterId |-> Str(<<"r2">>)]}
C3_Original ==
  [][\A j \in jobs :
       /\ (AnswersNow("updateJob") /\ last'.id = j.id)
          => IF last'.user # j.recruiterId
             THEN last'.status = 403 /\ store' = store
             ELSE (last'.role = "RECRUITER" /\ last'.body \in C3_ValidBodies)
                  => last'.status = 200
       /\ (AnswersNow("deleteJob") /\ last'.id = j.id)
          => IF last'.user # j.recruiterId
             THEN last'.status = 403 /\ store' = store
             ELSE last'.role = "RECRUITER" => last'.status = 200
    ]_vars
\* C3 as amended: the same, except that DELETE /jobs/j by a caller whose role
\* is ADMIN succeeds whoever owns the job.
C3_OwnerOrAdmin ==
  [][\A j \in jobs :
       /\ (AnswersNow("updateJob") /\ last'.id = j.id)
          => IF last'.user # j.recruiterId
             THEN last'.status = 403 /\ store' = store
             ELSE (last'.role = "RECRUITER" /\ last'.body \in C3_ValidBodies)
                  => last'.status = 200
       /\ (AnswersNow("deleteJob") /\ last'.id = j.id)
          => IF last'.role = "ADMIN"
             THEN last'.status = 200 /\ j \notin jobs'
             ELSE IF last'.user # j.recruiterId
             THEN last'.status = 403 /\ store' = store
             ELSE last'.role = "RECRUITER" => last'.status = 200
    ]_vars
\* a recruiter was refused the update of another recruiter's job
C3_Witness ==
  /\ Answered("updateJob", 403)
  /\ last.role = "RECRUITER"
  /\ \E j \in jobs : j.id = last.id /\ j.recruiterId # last.user

\* C4 as stated: POST /jobs by a recruiter with all required fields stores
\* category "fullstack" when none is given, the normalized category when the
\* given one is one of the three, and is answered 400 without creating a job
\* when the given one is none of the three.
C4_Claim ==
  (/\ last.op = "createJob"
   /\ last.role = "RECRUITER"
   /\ \A k \in DOMAIN FullBody : k \in DOMAIN last.body /\ last.body[k].s # <<>>)
  => LET given == Supplied(last.body)
         stored == {j \in jobs : last.outIds = <<j.id>>}
     IN IF given = <<>>
        THEN last.status = 201 /\ \E j \in stored : j.category = Fullstack
        ELSE IF ExpectedCategory(given[1]) # <<>>
        THEN last.status = 201 /\ \E j \in stored : j.category = ExpectedCategory(given[1])
        ELSE last.status = 400 /\ ~last.wrote

\* C5: GET /jobs with a filter (role, or category as its alias) that stands for
\* one of the three categories lists exactly the jobs of that category; with a
\* filter that stands for none it is answered 400; without filter it lists
\* every job; a list is newest first.
C5_ListByCategory ==
  last.op = "listJobs" =>
    LET given == Supplied(last.body)
    IN IF given = <<>>
       THEN /\ last.status = 200
            /\ Listed(last.outIds) = {j.id : j \in jobs}
            /\ IsNewestFirst(last.outIds)
       ELSE IF ExpectedCategory(given[1]) # <<>>
       THEN /\ last.status = 200
            /\ Listed(last.outIds) =
                 {j.id : j \in {x \in jobs : x.category = ExpectedCategory(given[1])}}
            /\ IsNewestFirst(last.outIds)
       ELSE last.status = 400 /\ last.outIds = <<>>
\* the padded, mixed-case filter listed two of three jobs, newest first
C5_Witness ==
  /\ Answered("listJobs", 200)
  /\ Supplied(last.body) = <<PaddedBackend>>
  /\ Len(last.outIds) = 2
  /\ Cardinality(jobs) = 3

\* C6: when the admin's delete-user is answered with success, the user row is
\* gone, no application, saved job, job or profile refers to the user, and no
\* application or saved job refers to a job that no longer exists (the jobs
\* the user recruited are gone with their rows).
C6_NoOrphans ==
  Answered("deleteUser", 200) =>
    /\ last.owner \notin users
    /\ \A a \in applications : a.userId # last.owner
    /\ \A x \in savedJobs : x.userId # last.owner
    /\ \A j \in jobs : j.recruiterId # last.owner
    /\ \A q \in profiles : q.userId # last.owner
    /\ \A a \in applications : \E j \in jobs : j.id = a.jobId
    /\ \A x \in savedJobs : \E j \in jobs : j.id = x.jobId
\* a recruiter whose job had an application and a saved-job entry was deleted
C6_Witness ==
  /\ Answered("deleteUser", 200)
  /\ last.owner = "r1"
  /\ last.wrote

\* C7: GET /profile answered 200 returns the caller's profile: the existing
\* one, creating nothing, or else exactly one new row; a profile keeps its id
\* and user; and in every reachable state, whatever the interleaving of GET
\* /profile, the upserts and the experience/education adds, there is at most
\* one Profile row per user.
C7_OneProfilePerUser ==
  /\ [](\A q, x \in profiles : q.userId = x.userId => q = x)
  /\ [][/\ (AnswersNow("getProfile") /\ last'.status = 200)
           => IF \E q \in profiles : q.userId = last'.user
              THEN /\ profiles' = profiles
                   /\ \E q \in profiles : q.userId = last'.user /\ last'.outIds = <<q.id>>
              ELSE \E q \in profiles' :
                     /\ q.userId = last'.user
                     /\ last'.outIds = <<q.id>>
                     /\ profiles' = profiles \cup {q}
        /\ \A q \in profiles : \E x \in profiles' : x.id = q.id /\ x.userId = q.userId
       ]_vars
\* a later GET /profile returned the profile an earlier GET /profile created
C7_Witness ==
  /\ Answered("getProfile", 200)
  /\ ~last.wrote
  /\ \E q \in profiles : q.userId = last.user /\ q.name = last.user /\ last.outIds = <<q.id>>

\* C8: with one request at a time, check(u,j) by a job seeker is always
\* answered 200 with isSaved telling whether a SavedJob of (u,j) exists, and
\* changes nothing; a successful remove deletes the entry; so for the watched
\* pair a check after save then remove answers isSaved = false.
C8_CheckAfterRemove ==
  [][/\ (AnswersNow("check") /\ last'.role = "JOB_SEEKER")
        => /\ last'.status = 200
           /\ last'.outFlag = (RowsOf(savedJobs, last'.user, last'.id) # {})
           /\ store' = store
     /\ (AnswersNow("remove") /\ last'.status = 200)
        => /\ RowsOf(savedJobs, last'.user, last'.id) # {}
           /\ savedJobs' = savedJobs \ RowsOf(savedJobs, last'.user, last'.id)
     /\ (/\ AnswersNow("check")
         /\ last'.user = Watched.user /\ last'.id = Watched.job
         /\ hist.saved = "removed")
        => last'.outFlag = FALSE
    ]_vars
C8_Witness ==
  /\ Answered("check", 200)
  /\ last.user = Watched.user /\ last.id = Watched.job
  /\ hist.saved = "removed"
  /\ ~last.outFlag

\* C9: a save whose existence check finds a SavedJob of (u,j) is answered 400
\* and creates no row; and in every reachable state, whatever the interleaving
\* of the requests, the store holds at most one SavedJob row per (userId,
\* jobId).
C9_OneSavedJobPerPair ==
  /\ [](\A a, b \in savedJobs : a.userId = b.userId /\ a.jobId = b.jobId => a = b)
  /\ [][\A p \in Procs :
          (/\ At(p, "save", "findExisting")
           /\ inflight'[p] # inflight[p]
           /\ RowsOf(savedJobs, inflight[p].user, inflight[p].id) # {})
          => /\ AnswersNow("save")
             /\ last'.user = inflight[p].user /\ last'.id = inflight[p].id
             /\ last'.status = 400
             /\ savedJobs' = savedJobs
       ]_vars
\* a save lost the race: its existence check passed, its create threw
C9_Witness ==
  /\ Answered("save", 500)
  /\ RowsOf(savedJobs, last.user, last.id) # {}

\* C11: with one request at a time, every application is created with status
\* PENDING and its status is always one of PENDING, REVIEWED, ACCEPTED,
\* REJECTED; a step that changes the status of an application is the success
\* of an update-status by the recruiter who owns its job; an update-status by
\* a recruiter is answered 400 for a status outside the four, else 404 for an
\* absent application, else 403 when the recruiter does not own the job, each
\* leaving the store unchanged.
C11_StatusWorkflow ==
  /\ [](\A a \in applications : a.status \in {"PENDING", "REVIEWED", "ACCEPTED", "REJECTED"})
  /\ [][/\ \A a \in applications' :
             (\A b \in applications : b.id # a.id) => a.status = "PENDING"
        /\ \A a \in applications, b \in applications' :
             (a.id = b.id /\ a.status # b.status)
             => /\ AnswersNow("updateStatus") /\ last'.status = 200
                /\ last'.id = a.id /\ last'.role = "RECRUITER"
                /\ b.status = last'.body.status.s[1]
                /\ \E j \in jobs : j.id = a.jobId /\ j.recruiterId = last'.user
        /\ (AnswersNow("updateStatus") /\ last'.role = "RECRUITER")
           => IF ~(/\ "status" \in DOMAIN last'.body
                   /\ last'.body.status \in
                        {Str(<<x>>) : x \in {"PENDING", "REVIEWED", "ACCEPTED", "REJECTED"}})
              THEN last'.status = 400 /\ store' = store
              ELSE IF \A a \in applications : a.id # last'.id
              THEN last'.status = 404 /\ store' = store
              ELSE IF \E a \in applications, j \in jobs :
                        a.id = last'.id /\ j.id = a.jobId /\ j.recruiterId # last'.user
              THEN last'.status = 403 /\ store' = store
              ELSE last'.status = 200
       ]_vars
\* the owner of job 1 accepted its application
C11_Witness ==
  /\ Answered("updateStatus", 200)
  /\ last.user = "r1"
  /\ last.wrote
  /\ \E a \in applications : a.id = last.id /\ a.jobId = 1 /\ a.status = "ACCEPTED"

\* C12: PUT /jobs/:id by the owning recruiter with a body whose role (or
\* category, as its alias) stands for none of the three categories is answered
\* 400 and changes no job; otherwise the data handed to the store has no role
\* key and its category, when present, is the normalized one; and every stored
\* job's category is one of frontend, backend, fullstack.
C12_UpdateCategory ==
  /\ [](\A j \in jobs : j.category \in {Frontend, Backend, Fullstack})
  /\ [][(/\ AnswersNow("updateJob")
         /\ last'.role = "RECRUITER"
         /\ \E j \in jobs : j.id = last'.id /\ j.recruiterId = last'.user)
        => LET given == Supplied(last'.body)
           IN IF given # <<>> /\ ExpectedCategory(given[1]) = <<>>
              THEN last'.status = 400 /\ jobs' = jobs
              ELSE /\ last'.status # 400
                   /\ "role" \notin DOMAIN last'.data
                   /\ "category" \in DOMAIN last'.data
                      => /\ given # <<>>
                         /\ last'.data.category = Str(ExpectedCategory(given[1]))
                   /\ given # <<>> => "category" \in DOMAIN last'.data
       ]_vars
\* the owner's update with role " backend " stored category backend
C12_Witness ==
  /\ Answered("updateJob", 200)
  /\ Supplied(last.body) = <<PaddedBackend>>
  /\ last.data.category = Str(Backend)
  /\ \E j \in jobs : j.id = last.id /\ j.category = Backend /\ j.title = <<"Q">>

\* C20 as stated: a job is created with the caller as recruiterId, and no
\* step changes the id or the recruiterId of a stored job.
C20_Claim ==
  [][/\ \A j \in jobs' :
          (\A x \in jobs : x.id # j.id)
          => AnswersNow("createJob") /\ j.recruiterId = last'.user
     /\ \A j \in jobs, x \in jobs' : x.id = j.id => x.recruiterId = j.recruiterId
    ]_vars

\* C13: a job delete (DELETE /jobs/:id and DELETE /admin/jobs/:id) removes the
\* job's applications, then its saved-job entries, then the job, one store
\* operation per step and in that order; and whenever it is answered with
\* success the job is gone and no Application or SavedJob row refers to it,
\* whatever apply and save requests for the job interleave with the steps.
C13_JobDeleteCascade ==
  /\ [](\A op \in {"deleteJob", "adminDeleteJob"} :
          Answered(op, 200) =>
            /\ \A j \in jobs : j.id # last.id
            /\ \A a \in applications : a.jobId # last.id
            /\ \A x \in savedJobs : x.jobId # last.id)
  /\ [](/\ \A a \in applications : \E j \in jobs : j.id = a.jobId
        /\ \A x \in savedJobs : \E j \in jobs : j.id = x.jobId)
  /\ [][\A p \in Procs :
          LET r == inflight[p]
              deleting == r.op \in {"deleteJob", "adminDeleteJob"}
              starts == /\ r.pc = "idle"
                        /\ inflight'[p].op = "adminDeleteJob"
                        /\ inflight'[p].pc # "idle"
          IN /\ ((deleting /\ r.pc = "delApps" /\ inflight'[p] # r) \/ starts)
                => /\ applications' = {a \in applications : a.jobId # inflight'[p].id}
                   /\ savedJobs' = savedJobs /\ jobs' = jobs
                   /\ inflight'[p].pc = "delSaved"
             /\ (deleting /\ r.pc = "delSaved" /\ inflight'[p] # r)
                => /\ savedJobs' = {x \in savedJobs : x.jobId # r.id}
                   /\ applications' = applications /\ jobs' = jobs
                   /\ inflight'[p].pc = "delJob"
             /\ (deleting /\ r.pc = "delJob" /\ inflight'[p] # r)
                => /\ applications' = applications /\ savedJobs' = savedJobs
                   /\ jobs' \in {jobs, {j \in jobs : j.id # r.id}}
                   /\ AnswersNow(r.op)
                   /\ last'.status = 200 <=> (\E j \in jobs : j.id = r.id) /\ jobs' # jobs
       ]_vars
\* the job was deleted while an apply for it had passed its existence check
C13_Witness ==
  /\ \E op \in {"deleteJob", "adminDeleteJob"} : Answered(op, 200)
  /\ last.wrote
  /\ \E p \in Procs : /\ inflight[p].op = "apply"
                      /\ inflight[p].id = last.id
                      /\ inflight[p].pc = "create"

\* The owner of an entry: the user of the profile the entry belongs to
OwnersOf(entry) == {q.userId : q \in {x \in profiles : x.id = entry.profileId}}
\* The rows of a table that a step changed or removed
Touched(before, after) == {x \in before : x \notin after}

\* C14: an update or delete of an experience or education entry that is
\* answered at its ownership check is answered 403, changes nothing, and its
\* id resolves to no entry or to an entry of another user's profile; it goes
\* past the check only for an entry of the caller's own profile; and a step
\* that changes or removes a row is the success of the update or delete of
\* that row by the user its profile belongs to.
C14_EntryOwnership ==
  [][/\ (\E op \in EntryOps : AnswersNow(op)) /\ inflight' = inflight
        => /\ last'.status = 403
           /\ store' = store
           /\ \A x \in EntryTable(last'.op) :
                x.id = last'.id => last'.user \notin OwnersOf(x)
     /\ \A p \in Procs :
          (inflight[p].pc = "idle" /\ inflight'[p].op \in EntryOps)
          => \E x \in EntryTable(inflight'[p].op) :
               x.id = inflight'[p].id /\ inflight'[p].user \in OwnersOf(x)
     /\ \A x \in Touched(experiences, experiences') :
          /\ AnswersNow("updateExperience") \/ AnswersNow("deleteExperience")
          /\ last'.status = 200 /\ last'.id = x.id /\ last'.user \in OwnersOf(x)
          /\ Touched(experiences, experiences') = {x}
     /\ \A x \in Touched(education, education') :
          /\ AnswersNow("updateEducation") \/ AnswersNow("deleteEducation")
          /\ last'.status = 200 /\ last'.id = x.id /\ last'.user \in OwnersOf(x)
          /\ Touched(education, education') = {x}
     /\ \A op \in EntryOps :
          (AnswersNow(op) /\ last'.status = 200)
          => \E x \in EntryTable(op) : x.id = last'.id /\ last'.user \in OwnersOf(x)
    ]_vars
\* a user was refused the delete of an entry of another user's profile
C14_Witness ==
  /\ Answered("deleteExperience", 403)
  /\ \E x \in experiences : x.id = last.id /\ OwnersOf(x) # {} /\ last.user \notin OwnersOf(x)

\* C15: in every reachable state, whatever experience adds and updates
\* happened (updates that omit the current flag or the end date included),
\* every Experience row whose current flag is true has a null end date.
C15_CurrentHasNoEndDate ==
  \A x \in experiences : x.current => x.endDate = Null
\* an update carrying both current = true and an end date stored no end date
C15_Witness ==
  /\ Answered("updateExperience", 200)
  /\ last.body = [current |-> True, endDate |-> Str(<<"2022">>)]
  /\ \E x \in experiences : x.id = last.id /\ x.current /\ x.endDate = Null

\* The extensions each upload field admits
AllowedExt(field) ==
  IF field = "resume" THEN {"pdf", "doc", "docx"} ELSE {"jpg", "jpeg", "png", "gif"}
\* The extension of each file name used in the requests, in lower case
ExtOf(name) ==
  CASE name = <<"p", ".", "P", "N", "G">> -> "png"
    [] name = <<"p", ".", "e", "x", "e">> -> "exe"
    [] name = <<"c", ".", "p", "d", "f">> -> "pdf"
    [] name = <<"c", ".", "p", "n", "g">> -> "png"
    [] name = <<"c", ".", "p", "d", "f", ".", "s", "h">> -> "sh"
    [] OTHER -> ""

\* C16 as stated: an upload whose file has an extension outside the set of its
\* field is answered 400, stores no file and leaves the profile as it is.
C16_Claim ==
  [][\A op \in {"uploadResume", "uploadAvatar"} :
       (/\ AnswersNow(op)
        /\ last'.body # EmptyObj
        /\ ExtOf(last'.body.originalname) \notin AllowedExt(last'.body.fieldname))
       => last'.status = 400 /\ disk' = disk /\ profiles' = profiles
    ]_vars

\* C19: with one request at a time, whenever no request is being handled, the
\* avatar files of each user on disk are exactly the file its profile's avatar
\* refers to, and none when the user has no profile or the avatar is null.
C19_AvatarFiles ==
  (\A p \in Procs : inflight[p].pc = "idle") =>
    \A u \in Users :
      {f \in disk : f.dir = "avatars" /\ f.user = u}
        = {q.avatar : q \in {x \in profiles : x.userId = u /\ x.avatar # Null}}
\* an upload replaced the avatar: the old file is gone, the new one is the
\* user's only avatar file and the one the profile refers to
C19_Witness ==
  /\ Answered("uploadAvatar", 200)
  /\ last.rest # {}
  /\ last.rest \cap disk = {}
  /\ \E q \in profiles : /\ q.userId = last.user
                         /\ q.avatar = last.data
                         /\ {f \in disk : f.dir = "avatars" /\ f.user = last.user} = {q.avatar}

\* C17 as stated: an apply(u,j) by a job seeker that is answered while an
\* Application of (u,j) exists is answered 400, also when two applies of the
\* same pair run concurrently (never 500).
C17_Claim ==
  [][(/\ AnswersNow("apply")
      /\ last'.role = "JOB_SEEKER"
      /\ \E j \in jobs : j.id = last'.id
      /\ RowsOf(applications, last'.user, last'.id) # {})
     => last'.status = 400
    ]_vars

\* The store operation a delete-user request is about to run fails: the jobs
\* of the user while a row refers to one of them, the user row while it is
\* absent or a row refers to it
JobsStepFails(r) ==
  /\ r.pc = "duJobs"
  /\ \E j \in jobs :
       /\ j.recruiterId = r.owner
       /\ \/ \E a \in applications : a.jobId = j.id
          \/ \E x \in savedJobs : x.jobId = j.id
UserStepFails(r) ==
  /\ r.pc = "duUser"
  /\ \/ r.owner \notin users
     \/ \E a \in applications : a.userId = r.owner
     \/ \E x \in savedJobs : x.userId = r.owner
     \/ \E j \in jobs : j.recruiterId = r.owner
\* A delete-user request whose store operation fails is answered 500 by that
\* step, which changes nothing (what the earlier steps deleted stays deleted);
\* no other step of the request is answered 500.
FailingStepAnswers500 ==
  \A p \in Procs :
    (inflight[p].op = "deleteUser" /\ inflight'[p] # inflight[p])
    => IF JobsStepFails(inflight[p]) \/ UserStepFails(inflight[p])
       THEN /\ AnswersNow("deleteUser")
            /\ last'.status = 500
            /\ last'.owner = inflight[p].owner
            /\ store' = store
       ELSE ~(AnswersNow("deleteUser") /\ last'.status = 500)

\* C18 as stated: a delete-user whose store operation fails is answered 500,
\* nothing is rolled back, and the user row still exists.
C18_Original ==
  /\ [][FailingStepAnswers500]_vars
  /\ [](Answered("deleteUser", 500) => last.owner \in users)
\* C18 as amended: the same, except that the user row still exists only if it
\* existed when the failing operation ran: the delete of a user row that is
\* already absent is itself the failing operation.
C18_NoRollback ==
  /\ [][FailingStepAnswers500]_vars
  /\ [][\A p \in Procs :
          (/\ inflight[p].op = "deleteUser"
           /\ AnswersNow("deleteUser") /\ last'.status = 500
           /\ inflight'[p] # inflight[p])
          => /\ inflight[p].owner \in users <=> inflight[p].owner \in users'
             /\ inflight[p].owner \notin users => inflight[p].pc = "duUser"
       ]_vars
\* the cascade failed after it had deleted rows, and the user is still there
C18_Witness ==
  /\ Answered("deleteUser", 500)
  /\ last.wrote
  /\ last.owner \in users

\* C21: a request that a job, application, saved-job, profile or admin handler
\* answers with 400, 403 or 404 leaves the store unchanged: the answering step
\* changes no table and no earlier step of the request has written; in
\* particular an experience or education add rejected for missing required
\* fields creates no profile.
Rejected == last'.pc = "done" /\ last'.status \in {400, 403, 404}
C21_RejectedLeavesStore ==
  [][Rejected =>
       /\ store' = store
       /\ ~last'.wrote
       /\ (last'.op \in {"addExperience", "addEducation"}
             => /\ profiles' = profiles
                /\ nextId'.profile = nextId.profile)]_vars
\* an experience add without title was answered 400 and its caller still has
\* no profile
C21_Witness ==
  /\ Answered("addExperience", 400)
  /\ ~Truthy(Get(last.body, "title"))
  /\ ~last.wrote
  /\ ProfileByUser(last.user) = {}

====
